---- MODULE Spec2Model ----
(***************************************************************************)
(* Model of the expiration monitoring engine of rust_ssl_checker:          *)
(* DomainCheckerService (checker/src/services/domain_checker.rs) driving   *)
(* the sources and the notifiers behind DomainSourceTrait and              *)
(* BaseNotifierTrait.                                                      *)
(***************************************************************************)
EXTENDS Integers, Sequences, FiniteSets, TLC

(***************************************************************************)
(* Bounds of the model.                                                    *)
(***************************************************************************)
\* number of configured sources (DomainCheckerService.sources)
MaxSources == 2
\* number of registered notifiers (DomainCheckerService.notifiers)
MaxNotifiers == 2
\* resolution of time: ticks per day
TicksPerDay == 2
\* expirations lie within MaxDays days of the time of the check
MaxDays == 5

(***************************************************************************)
(* Strings.  TLC evaluates Len, SubSeq and \o on strings; a character is a *)
(* string of length 1.                                                     *)
(***************************************************************************)
CharAt(s, i) == SubSeq(s, i, i)

UpperChars == "ABCDEFGHIJKLMNOPQRSTUVWXYZ"
LowerChars == "abcdefghijklmnopqrstuvwxyz"
DigitChars == "0123456789"

InChars(c, chars) == \E i \in 1..Len(chars) : CharAt(chars, i) = c

\* char::to_lowercase on the ASCII range
LowerChar(c) ==
    IF InChars(c, UpperChars)
    THEN LET i == CHOOSE j \in 1..Len(UpperChars) : CharAt(UpperChars, j) = c
         IN  CharAt(LowerChars, i)
    ELSE c

\* str::to_lowercase: character by character, from the first to the last
to_lowercase(s) ==
    LET lower[i \in 0..Len(s)] ==
            IF i = 0 THEN "" ELSE lower[i - 1] \o LowerChar(CharAt(s, i))
    IN  lower[Len(s)]

IsWhitespace(c) == c \in {" ", "\t", "\n", "\r"}

RECURSIVE trim_start(_)
trim_start(s) ==
    IF Len(s) > 0 /\ IsWhitespace(CharAt(s, 1))
    THEN trim_start(SubSeq(s, 2, Len(s)))
    ELSE s

RECURSIVE trim_end(_)
trim_end(s) ==
    IF Len(s) > 0 /\ IsWhitespace(CharAt(s, Len(s)))
    THEN trim_end(SubSeq(s, 1, Len(s) - 1))
    ELSE s

\* str::trim
trim(s) == trim_end(trim_start(s))

\* str::starts_with
starts_with(s, p) == Len(s) >= Len(p) /\ SubSeq(s, 1, Len(p)) = p

\* str::contains: case-sensitive substring search
contains(s, p) ==
    \E i \in 1..(Len(s) - Len(p) + 1) : SubSeq(s, i, i + Len(p) - 1) = p

\* str::split on one separator character: a sequence of (possibly empty) pieces,
\* one more than there are separators
split(s, sep) ==
    LET at == {i \in 1..Len(s) : CharAt(s, i) = sep}
        \* position of the k-th separator; 0 and Len(s) + 1 bracket the string
        cut[k \in 0..(Cardinality(at) + 1)] ==
            IF k = 0 THEN 0
            ELSE IF k = Cardinality(at) + 1 THEN Len(s) + 1
            ELSE CHOOSE i \in at : Cardinality({j \in at : j < i}) = k - 1
    IN  [k \in 1..(Cardinality(at) + 1) |-> SubSeq(s, cut[k - 1] + 1, cut[k] - 1)]

\* [String]::join
RECURSIVE join(_, _)
join(parts, sep) ==
    IF Len(parts) = 0 THEN ""
    ELSE IF Len(parts) = 1 THEN parts[1]
    ELSE parts[1] \o sep \o join(Tail(parts), sep)

(***************************************************************************)
(* Optional values: None, or Some(v).                                      *)
(***************************************************************************)
None == [some |-> FALSE]
Some(v) == [some |-> TRUE, val |-> v]

(***************************************************************************)
(* `let x = v;` followed by the statements that use x, written             *)
(* Bind([x \in {v} |-> statements]): v is computed once.                   *)
(***************************************************************************)
Bind(f) == f[CHOOSE x \in DOMAIN f : TRUE]

(***************************************************************************)
(* Domain Normalizer.                                                      *)
(***************************************************************************)
TXT_PATTERNS == {"_dmarc", "_domainkey", "_acme-challenge", "_spf"}

IsAlnum(c) == InChars(c, LowerChars) \/ InChars(c, UpperChars) \/ InChars(c, DigitChars)

\* a label the domain-name parser accepts: not empty, begins and ends with a
\* letter or digit, holds only letters, digits and hyphens
IsDomainLabel(l) ==
    /\ Len(l) > 0
    /\ IsAlnum(CharAt(l, 1))
    /\ IsAlnum(CharAt(l, Len(l)))
    /\ \A i \in 1..Len(l) : IsAlnum(CharAt(l, i)) \/ CharAt(l, i) = "-"

\* the multi-label public suffixes the model knows; any other name has its last
\* label as suffix (the public suffix list's default rule)
MultiLabelSuffixes == {<<"co", "uk">>}

SuffixLen(labels) ==
    IF Len(labels) >= 2 /\ SubSeq(labels, Len(labels) - 1, Len(labels)) \in MultiLabelSuffixes
    THEN 2 ELSE 1

\* parse_domain_name(d).ok()?.root()? : the registrable domain of d, as labels
ParsedRoot(d) ==
    Bind([labels \in {split(d, ".")} |->
    Bind([n \in {Len(labels)} |->
        IF \E i \in 1..n : ~IsDomainLabel(labels[i]) THEN None
        ELSE IF \A i \in 1..Len(labels[n]) : InChars(CharAt(labels[n], i), DigitChars) THEN None
        ELSE IF n <= SuffixLen(labels) THEN None
        ELSE Some(join(SubSeq(labels, n - SuffixLen(labels), n), "."))])])

\* a variant that leaves the wildcard marker in place
to_root_domain_keep_wildcard(domain) ==
    Bind([d \in {to_lowercase(trim(domain))} |->
    Bind([parsed \in {ParsedRoot(d)} |->
        IF ~parsed.some THEN None
        ELSE Bind([parts \in {split(parsed.val, ".")} |->
                 IF Len(parts) >= 2
                 THEN Some(parts[Len(parts) - 1] \o "." \o parts[Len(parts)])
                 ELSE Some(parsed.val)])])])

to_root_domain(domain) ==
    Bind([d0 \in {to_lowercase(trim(domain))} |->
    Bind([d \in {IF starts_with(d0, "*.") THEN SubSeq(d0, 3, Len(d0)) ELSE d0} |->
    Bind([parsed \in {ParsedRoot(d)} |->
        IF ~parsed.some THEN None
        ELSE Bind([parts \in {split(parsed.val, ".")} |->
                 IF Len(parts) >= 2
                 THEN Some(parts[Len(parts) - 1] \o "." \o parts[Len(parts)])
                 ELSE Some(parsed.val)])])])])

\* a variant that lets a wildcard hostname through as it is
filter_domain_keep_wildcard(domain) ==
    Bind([d \in {to_lowercase(trim(domain))} |->
    Bind([labels \in {split(d, ".")} |->
        IF \E i \in 1..Len(labels) : labels[i] \in TXT_PATTERNS THEN None
        ELSE IF Len(labels) < 2 THEN None
        ELSE Some(d)])])

\* a variant that rejects a label holding a TXT-record label anywhere inside
filter_domain_substring(domain) ==
    Bind([d0 \in {to_lowercase(trim(domain))} |->
    Bind([d \in {IF starts_with(d0, "*.") THEN "test." \o SubSeq(d0, 3, Len(d0)) ELSE d0} |->
    Bind([labels \in {split(d, ".")} |->
        IF \E i \in 1..Len(labels) : \E p \in TXT_PATTERNS : contains(labels[i], p) THEN None
        ELSE IF Len(labels) < 2 THEN None
        ELSE Some(d)])])])

\* a variant without the test of the number of labels
filter_domain_any_length(domain) ==
    Bind([d0 \in {to_lowercase(trim(domain))} |->
    Bind([d \in {IF starts_with(d0, "*.") THEN "test." \o SubSeq(d0, 3, Len(d0)) ELSE d0} |->
    Bind([labels \in {split(d, ".")} |->
        IF \E i \in 1..Len(labels) : labels[i] \in TXT_PATTERNS THEN None
        ELSE Some(d)])])])

filter_domain(domain) ==
    Bind([d0 \in {to_lowercase(trim(domain))} |->
    Bind([d \in {IF starts_with(d0, "*.") THEN "test." \o SubSeq(d0, 3, Len(d0)) ELSE d0} |->
    Bind([labels \in {split(d, ".")} |->
        IF \E i \in 1..Len(labels) : labels[i] \in TXT_PATTERNS THEN None
        ELSE IF Len(labels) < 2 THEN None
        ELSE Some(d)])])])

(***************************************************************************)
(* Error classification.                                                   *)
(***************************************************************************)
EXPECTED_ERRORS ==
    { "timed out",
      "Connection timed out",
      "Connection refused",
      "tlsv1 unrecognized name",
      "tlsv1 alert internal error",
      "Name has no usable address",
      "failed to lookup address",
      "Host is unreachable" }

\* a variant that ignores the letter case
IsExpectedErrorIgnoreCase(err_str) ==
    \E exp_err \in EXPECTED_ERRORS : contains(to_lowercase(err_str), to_lowercase(exp_err))

\* EXPECTED_ERRORS.iter().any(|exp_err| err_str.contains(exp_err))
IsExpectedError(err_str) == \E exp_err \in EXPECTED_ERRORS : contains(err_str, exp_err)

(***************************************************************************)
(* Time.  A timestamp counts ticks (TicksPerDay to the day); a duration is  *)
(* a difference of timestamps.                                             *)
(***************************************************************************)

\* integer division that truncates toward zero, as Rust's / on i64
TruncDiv(a, b) == IF a >= 0 THEN a \div b ELSE -((-a) \div b)

\* TimeDelta::num_days: the whole days of a duration
num_days(delta) == TruncDiv(delta, TicksPerDay)

\* DateTime::to_rfc3339, on the model's timestamps: day number and time of day
to_rfc3339(ts) ==
    ToString(ts \div TicksPerDay) \o "T" \o ToString(ts % TicksPerDay)
        \o "/" \o ToString(TicksPerDay) \o "+00:00"

(***************************************************************************)
(* Results of fallible calls and of spawned tasks.                         *)
(***************************************************************************)
Ok(v) == [kind |-> "Ok", val |-> v]
Err(e) == [kind |-> "Err", e |-> e]
\* a spawned task that has not finished, and one that panicked (JoinError)
Running == [kind |-> "Running"]
Panicked == [kind |-> "Panicked"]

Range(f) == {f[i] : i \in DOMAIN f}

\* all orders in which the elements of a finite set can be enumerated
Orders(S) ==
    {s \in [1..Cardinality(S) -> S] : \A i, j \in 1..Cardinality(S) : i # j => s[i] # s[j]}

(***************************************************************************)
(* WHOIS expiry parsing.  A DateTime<Utc> is a day, counted from           *)
(* 1970-01-01, and a second of that day.                                   *)
(***************************************************************************)
IsDigits(s) == Len(s) > 0 /\ \A i \in 1..Len(s) : InChars(CharAt(s, i), DigitChars)

DigitValue(c) == CHOOSE d \in 0..9 : CharAt(DigitChars, d + 1) = c

\* the number a string of digits writes
ToNat(s) ==
    LET val[i \in 0..Len(s)] ==
            IF i = 0 THEN 0 ELSE val[i - 1] * 10 + DigitValue(CharAt(s, i))
    IN  val[Len(s)]

\* a numeric field of a format: one digit at least, `width` digits at most
IsField(s, width) == IsDigits(s) /\ Len(s) <= width

IsLeapYear(y) == (y % 4 = 0 /\ y % 100 # 0) \/ y % 400 = 0

DaysInMonth(y, m) ==
    IF m = 2 THEN (IF IsLeapYear(y) THEN 29 ELSE 28)
    ELSE IF m \in {4, 6, 9, 11} THEN 30 ELSE 31

\* the days from 1970-01-01 to the day y-m-d of the proleptic Gregorian calendar
DaysFromCivil(y, m, d) ==
    LET yy == IF m <= 2 THEN y - 1 ELSE y
        era == yy \div 400
        yoe == yy - era * 400
        doy == (153 * (IF m > 2 THEN m - 3 ELSE m + 9) + 2) \div 5 + d - 1
        doe == yoe * 365 + yoe \div 4 - yoe \div 100 + doy
    IN  era * 146097 + doe - 719468

\* NaiveDate::from_ymd_opt
NaiveDate(y, m, d) ==
    IF m \in 1..12 /\ d \in 1..DaysInMonth(y, m) THEN Some(DaysFromCivil(y, m, d)) ELSE None

\* NaiveTime::from_hms_opt, as a second of the day
NaiveTime(h, mi, s) ==
    IF h \in 0..23 /\ mi \in 0..59 /\ s \in 0..59 THEN Some(h * 3600 + mi * 60 + s) ELSE None

\* the instant `offset` seconds east of UTC show as day `day`, second `second`
UtcDateTime(day, second, offset) ==
    [day |-> day + (second - offset) \div 86400, second |-> (second - offset) % 86400]

ShortMonths ==
    <<"jan", "feb", "mar", "apr", "may", "jun", "jul", "aug", "sep", "oct", "nov", "dec">>
LongMonths ==
    <<"january", "february", "march", "april", "may", "june", "july", "august",
      "september", "october", "november", "december">>

\* %b when parsing: a short or a long month name in any letter case; 0 when none
MonthOfName(name) ==
    Bind([lower \in {to_lowercase(name)} |->
        IF \E i \in 1..12 : lower \in {ShortMonths[i], LongMonths[i]}
        THEN CHOOSE i \in 1..12 : lower \in {ShortMonths[i], LongMonths[i]}
        ELSE 0])

\* three numeric fields between two separators `sep`: year, month, day
ParseYmd(s, sep) ==
    Bind([parts \in {split(s, sep)} |->
        IF /\ Len(parts) = 3
           /\ IsField(parts[1], 4) /\ IsField(parts[2], 2) /\ IsField(parts[3], 2)
        THEN NaiveDate(ToNat(parts[1]), ToNat(parts[2]), ToNat(parts[3]))
        ELSE None])

\* day, month, year
ParseDmy(s, sep) ==
    Bind([parts \in {split(s, sep)} |->
        IF /\ Len(parts) = 3
           /\ IsField(parts[1], 2) /\ IsField(parts[2], 2) /\ IsField(parts[3], 4)
        THEN NaiveDate(ToNat(parts[3]), ToNat(parts[2]), ToNat(parts[1]))
        ELSE None])

\* day, month name, year
ParseDby(s) ==
    Bind([parts \in {split(s, "-")} |->
        IF /\ Len(parts) = 3
           /\ IsField(parts[1], 2) /\ MonthOfName(parts[2]) # 0 /\ IsField(parts[3], 4)
        THEN NaiveDate(ToNat(parts[3]), MonthOfName(parts[2]), ToNat(parts[1]))
        ELSE None])

\* %H:%M:%S
ParseHms(s) ==
    Bind([parts \in {split(s, ":")} |->
        IF /\ Len(parts) = 3
           /\ IsField(parts[1], 2) /\ IsField(parts[2], 2) /\ IsField(parts[3], 2)
        THEN NaiveTime(ToNat(parts[1]), ToNat(parts[2]), ToNat(parts[3]))
        ELSE None])

\* the UTC offset of an RFC 3339 timestamp, in seconds: Z, or a sign, hh:mm
ParseOffset(s) ==
    IF s \in {"Z", "z"} THEN Some(0)
    ELSE IF /\ Len(s) = 6
            /\ CharAt(s, 1) \in {"+", "-"}
            /\ IsDigits(SubSeq(s, 2, 3)) /\ CharAt(s, 4) = ":" /\ IsDigits(SubSeq(s, 5, 6))
            /\ ToNat(SubSeq(s, 2, 3)) <= 23 /\ ToNat(SubSeq(s, 5, 6)) <= 59
         THEN Some((IF CharAt(s, 1) = "-" THEN -1 ELSE 1)
                      * (ToNat(SubSeq(s, 2, 3)) * 3600 + ToNat(SubSeq(s, 5, 6)) * 60))
         ELSE None

\* DateTime::parse_from_rfc3339(date_str).with_timezone(&Utc), on timestamps
\* of whole seconds: yyyy-mm-ddThh:mm:ss and the offset
parse_from_rfc3339(date_str) ==
    IF Len(date_str) < 20 \/ CharAt(date_str, 11) \notin {"T", "t"} THEN None
    ELSE Bind([date \in {ParseYmd(SubSeq(date_str, 1, 10), "-")} |->
         Bind([time \in {ParseHms(SubSeq(date_str, 12, 19))} |->
         Bind([offset \in {ParseOffset(SubSeq(date_str, 20, Len(date_str)))} |->
             IF /\ date.some /\ time.some /\ offset.some
                /\ CharAt(date_str, 5) = "-" /\ CharAt(date_str, 8) = "-"
                /\ CharAt(date_str, 14) = ":" /\ CharAt(date_str, 17) = ":"
             THEN Some(UtcDateTime(date.val, time.val, offset.val))
             ELSE None])])])

\* parse_whois_expiry: formats
formats == <<"%Y-%m-%d %H:%M:%S", "%Y-%m-%d", "%Y.%m.%d", "%d-%b-%Y", "%d.%m.%Y", "%d/%m/%Y">>

\* the date and the time of day that `date_str` writes under `format`, each None
\* when the text does not match or the format has no such fields
ParsedFields(date_str, format) ==
    IF format = "%Y-%m-%d %H:%M:%S"
    THEN Bind([parts \in {split(date_str, " ")} |->
             IF Len(parts) = 2
             THEN [date |-> ParseYmd(parts[1], "-"), time |-> ParseHms(parts[2])]
             ELSE [date |-> None, time |-> None]])
    ELSE [date |-> CASE format = "%Y-%m-%d" -> ParseYmd(date_str, "-")
                     [] format = "%Y.%m.%d" -> ParseYmd(date_str, ".")
                     [] format = "%d-%b-%Y" -> ParseDby(date_str)
                     [] format = "%d.%m.%Y" -> ParseDmy(date_str, ".")
                     [] format = "%d/%m/%Y" -> ParseDmy(date_str, "/"),
          time |-> None]

\* NaiveDateTime::parse_from_str, then DateTime::from_naive_utc_and_offset(dt, Utc)
NaiveDateTime_parse_from_str(date_str, format) ==
    Bind([f \in {ParsedFields(date_str, format)} |->
        IF f.date.some /\ f.time.some THEN Some(UtcDateTime(f.date.val, f.time.val, 0)) ELSE None])

\* NaiveDate::parse_from_str, then date.and_hms_opt(23, 59, 59) as UTC
NaiveDate_parse_from_str(date_str, format) ==
    Bind([f \in {ParsedFields(date_str, format)} |->
        IF /\ f.date.some
           /\ format = "%Y-%m-%d %H:%M:%S" => f.time.some
        THEN Some(UtcDateTime(f.date.val, NaiveTime(23, 59, 59).val, 0))
        ELSE None])

\* the attempts made on date_str: RFC 3339, then every format in order, as
\* date and time first and as a date second
ParseExpiryDate(date_str) ==
    Bind([rfc \in {parse_from_rfc3339(date_str)} |->
        IF rfc.some THEN rfc
        ELSE Bind([tried \in {[i \in 1..Len(formats) |->
                       Bind([dt \in {NaiveDateTime_parse_from_str(date_str, formats[i])} |->
                           IF dt.some THEN dt
                           ELSE NaiveDate_parse_from_str(date_str, formats[i])])]} |->
                 IF \E i \in 1..Len(formats) : tried[i].some
                 THEN tried[CHOOSE i \in 1..Len(formats) :
                                tried[i].some /\ \A j \in 1..(i - 1) : ~tried[j].some]
                 ELSE None])])

\* str::lines: the pieces between line feeds, a carriage return before the
\* line feed dropped, and no last piece after a final line feed
str_lines(text) ==
    Bind([pieces \in {split(text, "\n")} |->
    Bind([kept \in {IF pieces[Len(pieces)] = ""
                    THEN SubSeq(pieces, 1, Len(pieces) - 1) ELSE pieces} |->
        [i \in 1..Len(kept) |->
            IF Len(kept[i]) > 0 /\ CharAt(kept[i], Len(kept[i])) = "\r"
            THEN SubSeq(kept[i], 1, Len(kept[i]) - 1) ELSE kept[i]]])])

\* str::find of a character: the first position, 0 when there is none
find(s, c) ==
    IF \E i \in 1..Len(s) : CharAt(s, i) = c
    THEN CHOOSE i \in 1..Len(s) : CharAt(s, i) = c /\ \A j \in 1..(i - 1) : CharAt(s, j) # c
    ELSE 0

\* parse_whois_expiry: expiry_patterns
expiry_patterns ==
    <<"paid-till:", "registry expiry date:", "expiry date:",
      "registrar registration expiration date:", "expiration date:", "expires:",
      "expire:", "expiration time:">>

\* the body of the loop over the patterns, for one line: what the text after
\* the line's first colon parses to when `line_lower` holds a pattern
LineExpiry(line_trimmed, line_lower) ==
    IF \E k \in 1..Len(expiry_patterns) : contains(line_lower, expiry_patterns[k])
    THEN Bind([colon_pos \in {find(line_trimmed, ":")} |->
             IF colon_pos = 0 THEN None
             ELSE ParseExpiryDate(trim(SubSeq(line_trimmed, colon_pos + 1, Len(line_trimmed))))])
    ELSE None

CouldNotParse == Err("Could not parse expiry date from WHOIS")

\* a variant that looks for the patterns in the line as it is written
parse_whois_expiry_case_sensitive(whois_text) ==
    Bind([found \in {[i \in DOMAIN str_lines(whois_text) |->
              LineExpiry(trim(str_lines(whois_text)[i]), trim(str_lines(whois_text)[i]))]} |->
        IF \E i \in DOMAIN found : found[i].some
        THEN Ok(found[CHOOSE i \in DOMAIN found :
                          found[i].some /\ \A j \in 1..(i - 1) : ~found[j].some].val)
        ELSE CouldNotParse])

\* a variant that gives up at the first line that holds a pattern
parse_whois_expiry_first_label(whois_text) ==
    Bind([ls \in {str_lines(whois_text)} |->
    Bind([labelled \in {{i \in DOMAIN ls :
              \E k \in 1..Len(expiry_patterns) :
                  contains(to_lowercase(trim(ls[i])), expiry_patterns[k])}} |->
        IF labelled = {} THEN CouldNotParse
        ELSE Bind([i \in {CHOOSE i \in labelled : \A j \in labelled : i <= j} |->
             Bind([dt \in {LineExpiry(trim(ls[i]), to_lowercase(trim(ls[i])))} |->
                 IF dt.some THEN Ok(dt.val) ELSE CouldNotParse])])])])

\* parse_whois_expiry: the first line, in text order, on which an attempt succeeds
parse_whois_expiry(whois_text) ==
    Bind([found \in {[i \in DOMAIN str_lines(whois_text) |->
              LineExpiry(trim(str_lines(whois_text)[i]), to_lowercase(trim(str_lines(whois_text)[i])))]} |->
        IF \E i \in DOMAIN found : found[i].some
        THEN Ok(found[CHOOSE i \in DOMAIN found :
                          found[i].some /\ \A j \in 1..(i - 1) : ~found[j].some].val)
        ELSE CouldNotParse])

(***************************************************************************)
(* Notifiers (BaseNotifierTrait): the three record calls buffer.           *)
(***************************************************************************)
NewNotifier == [ssl_entries |-> <<>>, domain_entries |-> <<>>, errors |-> <<>>]

ssl_expiration(nf, entry) == [nf EXCEPT !.ssl_entries = Append(@, entry)]
exception(nf, msg) == [nf EXCEPT !.errors = Append(@, msg)]
expiration(nf, entry) == [nf EXCEPT !.domain_entries = Append(@, entry)]

VARIABLES
    sources,          \* DomainCheckerService.sources: the sources' names, in order
    notifiers,        \* DomainCheckerService.notifiers: each notifier's buffers
    alarm_days,       \* DomainCheckerService.alarm_days
    ssl_alarm_days,   \* DomainCheckerService.ssl_alarm_days
    now,              \* Utc::now()
    pc,               \* position of run
    src_idx,          \* index of the next source of the loop over sources
    hostnames,        \* run: hostnames
    source_errors,    \* run: source_errors
    domain_tasks,     \* run: domain_tasks, root -> state of the spawned task
    domain_results,   \* run: the part of domain_results not yet iterated
    expiring_domains, \* run: expiring_domains
    domain_failed,    \* run: domain_failed
    ssl_tasks,        \* run: ssl_tasks, hostname -> state of the spawned task
    ssl_results,      \* run: the part of ssl_results not yet iterated
    expiring_ssl,     \* run: expiring_ssl
    ssl_failed,       \* run: ssl_failed
    commit_idx,       \* commit: index of the next notifier of the loop
    run_result,       \* what run returned, once it has
    calls,            \* history: every call made on a notifier, in order
    loaded,           \* history: what get_domains answered, source by source
    normalizer,       \* a call of to_root_domain and of filter_domain: argument and results
    whois,            \* a call of parse_whois_expiry: argument and result
    telegram,         \* TelegramNotifierService::send_message and the Bot API it posts to
    main_loop,        \* main: the mode, the timer and the runs started
    formatter         \* a call of a notifier's formatting code: arguments and results

\* what a step of run neither reads nor writes
outer_vars == <<normalizer, whois, telegram, main_loop, formatter>>
config_vars == <<sources, alarm_days, ssl_alarm_days, now>>
load_vars == <<src_idx, hostnames, source_errors, loaded>>
domain_vars == <<domain_tasks, domain_results, expiring_domains, domain_failed>>
ssl_vars == <<ssl_tasks, ssl_results, expiring_ssl, ssl_failed>>
notify_vars == <<notifiers, calls, commit_idx>>
\* the service and the locals of its run, but for the notifiers
service_rest == <<config_vars, pc, load_vars, domain_vars, ssl_vars, commit_idx, run_result>>
\* the service and the locals of its run
run_vars == <<config_vars, pc, load_vars, domain_vars, ssl_vars, notify_vars, run_result>>
vars == <<outer_vars, config_vars, pc, load_vars, domain_vars, ssl_vars, notify_vars, run_result>>

\* the empty HashMap
EmptyMap == [k \in {} |-> {}]
\* HashMap::insert
MapInsert(m, k, v) == [x \in DOMAIN m \cup {k} |-> IF x = k THEN v ELSE m[x]]

(***************************************************************************)
(* Messages and entries built by run.  The texts are the source's, put     *)
(* into English.                                                           *)
(***************************************************************************)
\* format!("Ошибка загрузки из источника: {}.\n{}", source_name, e)
SourceErrorMsg(source_name, e) ==
    "Source load error: " \o source_name \o ".\n" \o e

\* format!("{:?}", set) of a HashSet<String> with one element
DebugSingleton(set) == "{\"" \o (CHOOSE x \in set : TRUE) \o "\"}"

\* the summary of domain_failed; `order` is the set's iteration order
DomainFailedMsg(order) ==
    IF Len(order) = 1
    THEN "Domain check error: " \o DebugSingleton(Range(order))
    ELSE "Check error of " \o ToString(Len(order)) \o " domains\n" \o join(order, "\n")

\* the summary of ssl_failed; `order` is the set's iteration order
SslFailedMsg(order) ==
    IF Len(order) = 1
    THEN "Certificate check error: " \o DebugSingleton(Range(order))
    ELSE "Check error of " \o ToString(Len(order)) \o " SSL certificates\n"
             \o join(order, "\n")

\* the json! value inserted into expiring_domains
DomainEntry(root, expiration_date, days) ==
    [hostname |-> root, expiration_date |-> to_rfc3339(expiration_date), days |-> days]

\* a variant that never counts the duplicates
SslEntryUncounted(hostname, expiration_date, serial, issuer, days, more) ==
    [info |-> [serial |-> serial, issuer |-> issuer],
     days |-> days,
     hostname |-> hostname,
     expiration_date |-> to_rfc3339(expiration_date),
     more |-> 1]

\* the json! value inserted into expiring_ssl
SslEntry(hostname, expiration_date, serial, issuer, days, more) ==
    [info |-> [serial |-> serial, issuer |-> issuer],
     days |-> days,
     hostname |-> hostname,
     expiration_date |-> to_rfc3339(expiration_date),
     more |-> IF more > 1 THEN more ELSE 1]

\* a variant with inclusive comparisons
DomainFlaggedInclusive(days, alarm) == days <= alarm \/ days <= 3

\* a variant without the unconditional `days < 3`
DomainFlaggedThresholdOnly(days, alarm) == days < alarm

\* days < alarm_days || days < 3
DomainFlagged(days, alarm) == days < alarm \/ days < 3

\* a variant with strict comparisons
SslFlaggedStrict(days, ssl_alarm) == days < ssl_alarm \/ days < 1

\* days <= ssl_alarm_days || days <= 1
SslFlagged(days, ssl_alarm) == days <= ssl_alarm \/ days <= 1

\* slice::sort_by_key on the "days" field: a stable sort, ascending
RECURSIVE InsertByDays(_, _)
InsertByDays(sorted, entry) ==
    IF Len(sorted) = 0 THEN <<entry>>
    ELSE IF sorted[Len(sorted)].days <= entry.days THEN Append(sorted, entry)
    ELSE Append(InsertByDays(SubSeq(sorted, 1, Len(sorted) - 1), entry), sorted[Len(sorted)])

\* a variant that leaves the list in the map's order
sort_skipped(list) == list

RECURSIVE sort_by_days(_)
sort_by_days(list) ==
    IF Len(list) = 0 THEN <<>>
    ELSE InsertByDays(sort_by_days(SubSeq(list, 1, Len(list) - 1)), list[Len(list)])

(***************************************************************************)
(* TelegramNotifierService: formatting, chunking and sending.  The texts   *)
(* are put into English and ASCII.                                         *)
(***************************************************************************)
MAX_MESSAGE_LENGTH == 4096

\* TelegramNotifierService::new: retry_interval_secs.unwrap_or(1), in seconds
DefaultRetryIntervalSecs == 1

\* html_escape::encode_text, one character
EscapeChar(c) ==
    CASE c = "&" -> "&amp;"
      [] c = "<" -> "&lt;"
      [] c = ">" -> "&gt;"
      [] OTHER -> c

\* html_escape::encode_text: every character escaped, the text taken by halves
RECURSIVE encode_text(_)
encode_text(s) ==
    IF Len(s) = 0 THEN ""
    ELSE IF Len(s) = 1 THEN EscapeChar(s)
    ELSE encode_text(SubSeq(s, 1, Len(s) \div 2))
             \o encode_text(SubSeq(s, (Len(s) \div 2) + 1, Len(s)))

Abs(n) == IF n < 0 THEN -n ELSE n

\* i32::MIN and i32::MAX
I32_MIN == -2147483647 - 1
I32_MAX == -(I32_MIN + 1)
I32 == I32_MIN..I32_MAX

\* i32::abs overflows on i32::MIN alone: a build with overflow checks panics
\* there, a build without them answers i32::MIN (wrapping_abs)
abs_overflows(n) == n = I32_MIN
wrapping_abs(n) == IF n = I32_MIN THEN I32_MIN ELSE Abs(n)

\* a % b of i32: the remainder has the sign of a
Rem(a, b) == IF a >= 0 \/ a % b = 0 THEN a % b ELSE (a % b) - b

\* a variant of format_days without the test for 11..=14
format_days_no_teens(n) ==
    CASE Rem(wrapping_abs(n), 10) = 1 -> "den"
      [] Rem(wrapping_abs(n), 10) \in 2..4 -> "dnya"
      [] OTHER -> "dney"

\* BaseNotifierTrait::format_days: the word for "days" after the number n,
\* where n.abs() has not panicked
format_days(n) ==
    IF Rem(wrapping_abs(n), 100) \in 11..14 THEN "dney"
    ELSE CASE Rem(wrapping_abs(n), 10) = 1 -> "den"
           [] Rem(wrapping_abs(n), 10) \in 2..4 -> "dnya"
           [] OTHER -> "dney"

ExpWords(days) ==
    IF days >= 0
    THEN "Expires in: <b>" \o ToString(days) \o " " \o format_days(days) \o "</b>"
    ELSE "Expired: <b>" \o ToString(wrapping_abs(days)) \o " " \o format_days(days) \o " ago</b>"

Icon(days) == IF days > 2 THEN "[yellow]" ELSE "[red]"

\* serde_json::Value::as_str on the "more" of an entry: run has put a
\* Value::Number there, and as_str answers Some on a Value::String alone
as_str_of_number(n) == None

\* format_ssl_entries: more_info, the same in both notifiers
more_info(entry) ==
    IF as_str_of_number(entry.more).some
    THEN " (+" \o as_str_of_number(entry.more).val \o ")"
    ELSE ""

\* format_ssl_entries, one entry
FormatSslEntry(entry) ==
    Icon(entry.days) \o " <b>Certificate " \o entry.info.serial \o "</b>\n"
        \o "|- Issuer: <code>" \o encode_text(entry.info.issuer) \o "</code>\n"
        \o "|- Host: <a href=\"https://" \o entry.hostname \o "\">"
        \o encode_text(entry.hostname) \o "</a>" \o more_info(entry) \o "\n"
        \o "'- " \o ExpWords(entry.days)

format_ssl_entries(nf) == [i \in DOMAIN nf.ssl_entries |-> FormatSslEntry(nf.ssl_entries[i])]

\* format_domain_entries, one entry
FormatDomainEntry(entry) ==
    Icon(entry.days) \o " <b>Domain</b>: <a href=\"https://" \o entry.hostname \o "\">"
        \o encode_text(entry.hostname) \o "</a>\n"
        \o "'- " \o ExpWords(entry.days)

format_domain_entries(nf) ==
    [i \in DOMAIN nf.domain_entries |-> FormatDomainEntry(nf.domain_entries[i])]

format_errors(nf) ==
    [i \in DOMAIN nf.errors |-> "[red] <code>" \o encode_text(nf.errors[i]) \o "</code>"]

\* ConsoleNotifierService::format_ssl_entries, one entry
ConsoleFormatSslEntry(entry) ==
    IF entry.days >= 0
    THEN "Certificate " \o entry.info.serial \o " (" \o entry.info.issuer \o ") expires in: "
             \o ToString(entry.days) \o " " \o format_days(entry.days)
             \o " for " \o entry.hostname \o more_info(entry)
    ELSE "Certificate " \o entry.info.serial \o " (" \o entry.info.issuer \o ") expired: "
             \o ToString(wrapping_abs(entry.days)) \o " " \o format_days(entry.days)
             \o " ago for " \o entry.hostname \o more_info(entry)

\* ConsoleNotifierService::format_domain_entries, one entry
ConsoleFormatDomainEntry(entry) ==
    IF entry.days >= 0
    THEN "- Domain " \o entry.hostname \o " expires in "
             \o ToString(entry.days) \o " " \o format_days(entry.days)
    ELSE "Domain expired: " \o ToString(wrapping_abs(entry.days)) \o " "
             \o format_days(entry.days) \o " ago"

SslHeader == "[warning] <b>SSL certificates are expiring:</b>"
DomainHeader == "[warning] <b>Domains are expiring:</b>"
ErrorsHeader == "[red] <b>Errors occurred:</b>"

\* a variant of chunk_messages without the push of the last chunk after the loop
chunk_messages_without_last(header, messages) ==
    LET step[i \in 0..Len(messages)] ==
            IF i = 0
            THEN [chunks |-> <<>>, current_chunk |-> <<>>, current_length |-> Len(header) + 2]
            ELSE LET before == step[i - 1]
                     msg == messages[i]
                 IN  IF before.current_length + Len(msg) + 2 > MAX_MESSAGE_LENGTH
                     THEN [chunks |-> IF before.current_chunk # <<>>
                                      THEN Append(before.chunks, before.current_chunk)
                                      ELSE before.chunks,
                           current_chunk |-> <<msg>>,
                           current_length |-> Len(header) + 2 + Len(msg) + 2]
                     ELSE [chunks |-> before.chunks,
                           current_chunk |-> Append(before.current_chunk, msg),
                           current_length |-> before.current_length + Len(msg) + 2]
    IN  step[Len(messages)].chunks

\* chunk_messages: the messages in order, a new chunk begun where the header
\* and the messages, two characters counted after each, would pass the limit
chunk_messages(header, messages) ==
    LET step[i \in 0..Len(messages)] ==
            IF i = 0
            THEN [chunks |-> <<>>, current_chunk |-> <<>>, current_length |-> Len(header) + 2]
            ELSE LET before == step[i - 1]
                     msg == messages[i]
                 IN  IF before.current_length + Len(msg) + 2 > MAX_MESSAGE_LENGTH
                     THEN [chunks |-> IF before.current_chunk # <<>>
                                      THEN Append(before.chunks, before.current_chunk)
                                      ELSE before.chunks,
                           current_chunk |-> <<msg>>,
                           current_length |-> Len(header) + 2 + Len(msg) + 2]
                     ELSE [chunks |-> before.chunks,
                           current_chunk |-> Append(before.current_chunk, msg),
                           current_length |-> before.current_length + Len(msg) + 2]
        last == step[Len(messages)]
    IN  IF last.current_chunk # <<>> THEN Append(last.chunks, last.current_chunk)
        ELSE last.chunks

\* send_messages: the texts handed to send_message, one per chunk
SendTexts(header, messages) ==
    Bind([chunks \in {chunk_messages(header, messages)} |->
        [i \in DOMAIN chunks |->
            (IF Len(chunks) > 1
             THEN "[" \o ToString(i) \o "/" \o ToString(Len(chunks)) \o "] " ELSE "")
                \o header \o "\n\n" \o join(chunks[i], "\n\n")]])

\* commit: the texts of the three categories, in the order of the sends
CommitTexts(nf) ==
    SendTexts(SslHeader, format_ssl_entries(nf))
        \o SendTexts(DomainHeader, format_domain_entries(nf))
        \o SendTexts(ErrorsHeader, format_errors(nf))

\* TelegramNotifierService::new(bot_token, chat_id, Some(retries), None)
NewTelegram(retries) ==
    [retries |-> retries,
     retry_interval |-> DefaultRetryIntervalSecs,
     pc |-> "idle",          \* idle, send_messages (in commit, between two sends), post, sleep
     queue |-> <<>>,         \* commit: the texts not yet sent
     attempt |-> 0,          \* send_message: attempt
     events |-> <<>>,        \* history: the posts and sleeps of the latest send_message
     returned |-> "none",    \* what the latest send_message returned
     committed |-> "none",   \* what commit returned
     posted |-> <<>>]        \* history: the texts the Bot API accepted

(***************************************************************************)
(* Fan-out to the notifiers.  A state of the notifiers is the pair of      *)
(* their buffers and the history of calls.                                 *)
(***************************************************************************)
Apply(method, nf, arg) ==
    CASE method = "exception" -> exception(nf, arg)
      [] method = "expiration" -> expiration(nf, arg)
      [] method = "ssl_expiration" -> ssl_expiration(nf, arg)

\* a variant that walks the notifiers from the last registered to the first
NotifyEachReversed(st, method, arg) ==
    [notifiers |-> [i \in DOMAIN st.notifiers |-> Apply(method, st.notifiers[i], arg)],
     calls |-> st.calls \o [i \in DOMAIN st.notifiers |->
                              [notifier |-> Len(st.notifiers) + 1 - i,
                               method |-> method, arg |-> arg]]]

\* for notifier in &mut self.notifiers { notifier.<method>(arg).await; }
NotifyEach(st, method, arg) ==
    [notifiers |-> [i \in DOMAIN st.notifiers |-> Apply(method, st.notifiers[i], arg)],
     calls |-> st.calls \o [i \in DOMAIN st.notifiers |->
                              [notifier |-> i, method |-> method, arg |-> arg]]]

notify_exception(st, msg) == NotifyEach(st, "exception", msg)
notify_expiration(st, entry) == NotifyEach(st, "expiration", entry)
notify_ssl_expiration(st, entry) == NotifyEach(st, "ssl_expiration", entry)

\* for error_msg in source_errors { for notifier ... notifier.exception(&error_msg) }
RECURSIVE NotifySourceErrorList(_, _)
NotifySourceErrorList(st, msgs) ==
    IF Len(msgs) = 0 THEN st
    ELSE NotifySourceErrorList(NotifyEach(st, "exception", Head(msgs)), Tail(msgs))

\* for entry in expiring_list { self.notify_expiration(entry).await; }
RECURSIVE NotifyExpirationList(_, _)
NotifyExpirationList(st, list) ==
    IF Len(list) = 0 THEN st
    ELSE NotifyExpirationList(notify_expiration(st, Head(list)), Tail(list))

\* for entry in expiring_ssl_list { self.notify_ssl_expiration(entry).await; }
RECURSIVE NotifySslExpirationList(_, _)
NotifySslExpirationList(st, list) ==
    IF Len(list) = 0 THEN st
    ELSE NotifySslExpirationList(notify_ssl_expiration(st, Head(list)), Tail(list))

(***************************************************************************)
(* Construction.                                                           *)
(***************************************************************************)
SourceName(i) == IF i % 2 = 1 THEN "FileSourceService" ELSE "SelectelSourceService"

\* DomainCheckerService::new and the first statements of run
NewService(n_sources, n_notifiers, alarms, ssl_alarms) ==
    /\ sources = [i \in 1..n_sources |-> SourceName(i)]
    /\ notifiers = [i \in 1..n_notifiers |-> NewNotifier]
    /\ alarm_days \in alarms
    /\ ssl_alarm_days \in ssl_alarms
    /\ now = 0
    /\ pc = "load_sources"
    /\ src_idx = 1
    /\ hostnames = {}
    /\ source_errors = <<>>
    /\ domain_tasks = EmptyMap
    /\ domain_results = {}
    /\ expiring_domains = EmptyMap
    /\ domain_failed = {}
    /\ ssl_tasks = EmptyMap
    /\ ssl_results = {}
    /\ expiring_ssl = EmptyMap
    /\ ssl_failed = {}
    /\ commit_idx = 1
    /\ run_result = "none"
    /\ calls = <<>>
    /\ loaded = <<>>

\* the value of a result before the call has returned
Pending == [pending |-> TRUE]

NotNormalized == [domain |-> "", to_root_domain |-> Pending, filter_domain |-> Pending]
NotParsed == [whois_text |-> "", parse_whois_expiry |-> Pending]
NotSending == [pc |-> "idle"]
NotLooping == [pc |-> "idle"]
NotFormatting == [pc |-> "idle"]

\* one run of a service, nothing else going on
InitWith(n_sources, n_notifiers, alarms, ssl_alarms) ==
    /\ NewService(n_sources, n_notifiers, alarms, ssl_alarms)
    /\ normalizer = NotNormalized
    /\ whois = NotParsed
    /\ telegram = NotSending
    /\ main_loop = NotLooping
    /\ formatter = NotFormatting

(***************************************************************************)
(* run.                                                                    *)
(***************************************************************************)
\* a variant that returns the first source error (get_domains().await?)
LoadSourcePropagate(out) ==
    /\ pc = "load_sources"
    /\ src_idx <= Len(sources)
    /\ loaded' = Append(loaded, out)
    /\ src_idx' = src_idx + 1
    /\ IF out.kind = "Ok"
       THEN /\ hostnames' = hostnames \cup Range(out.val)
            /\ UNCHANGED <<pc, run_result>>
       ELSE /\ pc' = "done"
            /\ run_result' = "Err"
            /\ UNCHANGED hostnames
    /\ UNCHANGED <<outer_vars, config_vars, source_errors, domain_vars, ssl_vars, notify_vars>>

\* one iteration of the loop over the sources: get_domains answered `out`
LoadSource(out) ==
    /\ pc = "load_sources"
    /\ src_idx <= Len(sources)
    /\ loaded' = Append(loaded, out)
    /\ IF out.kind = "Ok"
       THEN /\ hostnames' = hostnames \cup Range(out.val)
            /\ UNCHANGED source_errors
       ELSE /\ source_errors' = Append(source_errors, SourceErrorMsg(sources[src_idx], out.e))
            /\ UNCHANGED hostnames
    /\ src_idx' = src_idx + 1
    /\ UNCHANGED <<outer_vars, config_vars, pc, domain_vars, ssl_vars, notify_vars, run_result>>

\* the loop over source_errors, after the loop over the sources
NotifySourceErrors ==
    /\ pc = "load_sources"
    /\ src_idx > Len(sources)
    /\ LET st == NotifySourceErrorList([notifiers |-> notifiers, calls |-> calls], source_errors)
       IN  /\ notifiers' = st.notifiers
           /\ calls' = st.calls
    /\ pc' = "loaded"
    /\ UNCHANGED <<outer_vars, config_vars, load_vars, domain_vars, ssl_vars, commit_idx, run_result>>

\* a variant that commits before it returns
ReturnNoDomainsCommitted ==
    /\ pc = "loaded"
    /\ hostnames = {}
    /\ pc' = "commit"
    /\ UNCHANGED <<outer_vars, config_vars, load_vars, domain_vars, ssl_vars, notify_vars, run_result>>

\* if hostnames.is_empty() { return Ok(()) }
ReturnNoDomains ==
    /\ pc = "loaded"
    /\ hostnames = {}
    /\ pc' = "done"
    /\ run_result' = "Ok"
    /\ UNCHANGED <<outer_vars, config_vars, load_vars, domain_vars, ssl_vars, notify_vars>>

\* a variant that spawns one WHOIS task per hostname that has a root
SpawnDomainTasksPerHostname ==
    /\ pc = "loaded"
    /\ hostnames # {}
    /\ domain_tasks' = [h \in {x \in hostnames : to_root_domain(x).some} |-> Running]
    /\ pc' = "probe_domains"
    /\ UNCHANGED <<outer_vars, config_vars, load_vars, domain_results, expiring_domains, domain_failed,
                   ssl_vars, notify_vars, run_result>>

\* root_hostnames and the spawn of one WHOIS task per root
SpawnDomainTasks ==
    /\ pc = "loaded"
    /\ hostnames # {}
    /\ LET root_hostnames ==
               {to_root_domain(h).val : h \in {x \in hostnames : to_root_domain(x).some}}
       IN  domain_tasks' = [root \in root_hostnames |-> Running]
    /\ pc' = "probe_domains"
    /\ UNCHANGED <<outer_vars, config_vars, load_vars, domain_results, expiring_domains, domain_failed,
                   ssl_vars, notify_vars, run_result>>

\* a spawned WHOIS task ends: check_domain_expiration returned, or the task panicked
DomainTaskEnds(root, outcome) ==
    /\ pc = "probe_domains"
    /\ root \in DOMAIN domain_tasks
    /\ domain_tasks[root] = Running
    /\ domain_tasks' = [domain_tasks EXCEPT ![root] = outcome]
    /\ UNCHANGED <<outer_vars, config_vars, pc, load_vars, domain_results, expiring_domains, domain_failed,
                   ssl_vars, notify_vars, run_result>>

\* a variant that goes on with the results at hand once some task has ended
JoinDomainTasksEarly ==
    /\ pc = "probe_domains"
    /\ \E root \in DOMAIN domain_tasks : domain_tasks[root] # Running
    /\ domain_results' = {root \in DOMAIN domain_tasks : domain_tasks[root] # Running}
    /\ pc' = "aggregate_domains"
    /\ UNCHANGED <<outer_vars, config_vars, load_vars, domain_tasks, expiring_domains, domain_failed,
                   ssl_vars, notify_vars, run_result>>

\* join_all(domain_tasks).await returns once every task has ended
JoinDomainTasks ==
    /\ pc = "probe_domains"
    /\ \A root \in DOMAIN domain_tasks : domain_tasks[root] # Running
    /\ domain_results' = DOMAIN domain_tasks
    /\ pc' = "aggregate_domains"
    /\ UNCHANGED <<outer_vars, config_vars, load_vars, domain_tasks, expiring_domains, domain_failed,
                   ssl_vars, notify_vars, run_result>>

\* a variant that counts a panicked task as a failed probe
AggregateDomainResultCountsPanic(root) ==
    /\ pc = "aggregate_domains"
    /\ root \in domain_results
    /\ domain_results' = domain_results \ {root}
    /\ LET task_result == domain_tasks[root]
       IN  IF task_result.kind = "Ok"
           THEN LET days == num_days(task_result.val - now)
                IN  /\ expiring_domains' =
                          IF DomainFlagged(days, alarm_days)
                          THEN MapInsert(expiring_domains, root,
                                         DomainEntry(root, task_result.val, days))
                          ELSE expiring_domains
                    /\ UNCHANGED domain_failed
           ELSE /\ domain_failed' = domain_failed \cup {"- " \o root}
                /\ UNCHANGED expiring_domains
    /\ UNCHANGED <<outer_vars, config_vars, pc, load_vars, domain_tasks, ssl_vars, notify_vars, run_result>>

\* one iteration of the loop over domain_results, which come in the order of the
\* tasks, that of a HashSet: any order
AggregateDomainResult(root) ==
    /\ pc = "aggregate_domains"
    /\ root \in domain_results
    /\ domain_results' = domain_results \ {root}
    /\ LET task_result == domain_tasks[root]
       IN  CASE task_result.kind = "Ok" ->
                  LET expiration_date == task_result.val
                      days == num_days(expiration_date - now)
                  IN  /\ expiring_domains' =
                            IF DomainFlagged(days, alarm_days)
                            THEN MapInsert(expiring_domains, root,
                                           DomainEntry(root, expiration_date, days))
                            ELSE expiring_domains
                      /\ UNCHANGED domain_failed
             [] task_result.kind = "Err" ->
                  /\ domain_failed' = domain_failed \cup {"- " \o root}
                  /\ UNCHANGED expiring_domains
             [] task_result.kind = "Panicked" ->
                  UNCHANGED <<expiring_domains, domain_failed>>
    /\ UNCHANGED <<outer_vars, config_vars, pc, load_vars, domain_tasks, ssl_vars, notify_vars, run_result>>

\* ssl_hostnames and the spawn of one TLS task per candidate
SpawnSslTasks ==
    /\ pc = "aggregate_domains"
    /\ domain_results = {}
    /\ LET ssl_hostnames ==
               {filter_domain(h).val : h \in {x \in hostnames : filter_domain(x).some}}
       IN  ssl_tasks' = [hostname \in ssl_hostnames |-> Running]
    /\ pc' = "probe_ssl"
    /\ UNCHANGED <<outer_vars, config_vars, load_vars, domain_vars, ssl_results, expiring_ssl, ssl_failed,
                   notify_vars, run_result>>

\* a spawned TLS task ends: check_ssl_expiry returned, or the task panicked
SslTaskEnds(hostname, outcome) ==
    /\ pc = "probe_ssl"
    /\ hostname \in DOMAIN ssl_tasks
    /\ ssl_tasks[hostname] = Running
    /\ ssl_tasks' = [ssl_tasks EXCEPT ![hostname] = outcome]
    /\ UNCHANGED <<outer_vars, config_vars, pc, load_vars, domain_vars, ssl_results, expiring_ssl, ssl_failed,
                   notify_vars, run_result>>

\* a variant that goes on with the tasks that have ended once one has
JoinSslTasksEarly ==
    /\ pc = "probe_ssl"
    /\ \E hostname \in DOMAIN ssl_tasks : ssl_tasks[hostname] # Running
    /\ ssl_results' = {hostname \in DOMAIN ssl_tasks : ssl_tasks[hostname] # Running}
    /\ pc' = "aggregate_ssl"
    /\ UNCHANGED <<outer_vars, config_vars, load_vars, domain_vars, ssl_tasks, expiring_ssl, ssl_failed,
                   notify_vars, run_result>>

\* join_all(ssl_tasks).await returns once every task has ended
JoinSslTasks ==
    /\ pc = "probe_ssl"
    /\ \A hostname \in DOMAIN ssl_tasks : ssl_tasks[hostname] # Running
    /\ ssl_results' = DOMAIN ssl_tasks
    /\ pc' = "aggregate_ssl"
    /\ UNCHANGED <<outer_vars, config_vars, load_vars, domain_vars, ssl_tasks, expiring_ssl, ssl_failed,
                   notify_vars, run_result>>

\* a variant that returns the JoinError of a panicked task (task_result?)
AggregateSslResultPropagatesPanic(hostname) ==
    /\ pc = "aggregate_ssl"
    /\ hostname \in ssl_results
    /\ ssl_results' = ssl_results \ {hostname}
    /\ LET task_result == ssl_tasks[hostname]
       IN  CASE task_result.kind = "Ok" ->
                  LET days == num_days(task_result.val.expiry - now)
                      serial == task_result.val.serial
                      more == (IF serial \in DOMAIN expiring_ssl
                               THEN expiring_ssl[serial].more ELSE 0) + 1
                  IN  /\ expiring_ssl' =
                            IF SslFlagged(days, ssl_alarm_days)
                            THEN MapInsert(expiring_ssl, serial,
                                   SslEntry(hostname, task_result.val.expiry, serial,
                                            task_result.val.issuer, days, more))
                            ELSE expiring_ssl
                      /\ UNCHANGED <<ssl_failed, pc, run_result>>
             [] task_result.kind = "Err" ->
                  /\ ssl_failed' = IF ~IsExpectedError(task_result.e)
                                   THEN ssl_failed \cup {"- " \o hostname}
                                   ELSE ssl_failed
                  /\ UNCHANGED <<expiring_ssl, pc, run_result>>
             [] task_result.kind = "Panicked" ->
                  /\ pc' = "done"
                  /\ run_result' = "Err"
                  /\ UNCHANGED <<expiring_ssl, ssl_failed>>
    /\ UNCHANGED <<outer_vars, config_vars, load_vars, domain_vars, ssl_tasks, notify_vars>>

\* one iteration of the loop over ssl_results (any order, as for the domains)
AggregateSslResult(hostname) ==
    /\ pc = "aggregate_ssl"
    /\ hostname \in ssl_results
    /\ ssl_results' = ssl_results \ {hostname}
    /\ LET task_result == ssl_tasks[hostname]
       IN  CASE task_result.kind = "Ok" ->
                  LET expiration_date == task_result.val.expiry
                      serial == task_result.val.serial
                      issuer == task_result.val.issuer
                      days == num_days(expiration_date - now)
                      more == (IF serial \in DOMAIN expiring_ssl
                               THEN expiring_ssl[serial].more ELSE 0) + 1
                  IN  /\ expiring_ssl' =
                            IF SslFlagged(days, ssl_alarm_days)
                            THEN MapInsert(expiring_ssl, serial,
                                   SslEntry(hostname, expiration_date, serial, issuer, days, more))
                            ELSE expiring_ssl
                      /\ UNCHANGED ssl_failed
             [] task_result.kind = "Err" ->
                  /\ ssl_failed' = IF ~IsExpectedError(task_result.e)
                                   THEN ssl_failed \cup {"- " \o hostname}
                                   ELSE ssl_failed
                  /\ UNCHANGED expiring_ssl
             [] task_result.kind = "Panicked" ->
                  UNCHANGED <<expiring_ssl, ssl_failed>>
    /\ UNCHANGED <<outer_vars, config_vars, pc, load_vars, domain_vars, ssl_tasks, notify_vars, run_result>>

\* a variant with the two blocks exchanged
NotifyFailuresSwapped(domain_order, ssl_order) ==
    /\ pc = "aggregate_ssl"
    /\ ssl_results = {}
    /\ domain_order \in Orders(domain_failed)
    /\ ssl_order \in Orders(ssl_failed)
    /\ LET st0 == [notifiers |-> notifiers, calls |-> calls]
           st1 == IF ssl_failed # {}
                  THEN NotifyEach(st0, "exception", SslFailedMsg(ssl_order)) ELSE st0
           st2 == IF domain_failed # {}
                  THEN NotifyEach(st1, "exception", DomainFailedMsg(domain_order)) ELSE st1
       IN  /\ notifiers' = st2.notifiers
           /\ calls' = st2.calls
    /\ pc' = "notify_domains"
    /\ UNCHANGED <<outer_vars, config_vars, load_vars, domain_vars, ssl_vars, commit_idx, run_result>>

\* a variant that sends one exception per failed host
NotifyFailuresPerHost(domain_order, ssl_order) ==
    /\ pc = "aggregate_ssl"
    /\ ssl_results = {}
    /\ domain_order \in Orders(domain_failed)
    /\ ssl_order \in Orders(ssl_failed)
    /\ LET st0 == [notifiers |-> notifiers, calls |-> calls]
           st1 == NotifySourceErrorList(st0,
                      [i \in DOMAIN domain_order |-> DomainFailedMsg(<<domain_order[i]>>)])
           st2 == NotifySourceErrorList(st1,
                      [i \in DOMAIN ssl_order |-> SslFailedMsg(<<ssl_order[i]>>)])
       IN  /\ notifiers' = st2.notifiers
           /\ calls' = st2.calls
    /\ pc' = "notify_domains"
    /\ UNCHANGED <<outer_vars, config_vars, load_vars, domain_vars, ssl_vars, commit_idx, run_result>>

\* the two failure summaries; the orders are the sets' iteration orders
NotifyFailures(domain_order, ssl_order) ==
    /\ pc = "aggregate_ssl"
    /\ ssl_results = {}
    /\ domain_order \in Orders(domain_failed)
    /\ ssl_order \in Orders(ssl_failed)
    /\ LET st0 == [notifiers |-> notifiers, calls |-> calls]
           st1 == IF domain_failed # {}
                  THEN notify_exception(st0, DomainFailedMsg(domain_order)) ELSE st0
           st2 == IF ssl_failed # {}
                  THEN notify_exception(st1, SslFailedMsg(ssl_order)) ELSE st1
       IN  /\ notifiers' = st2.notifiers
           /\ calls' = st2.calls
    /\ pc' = "notify_domains"
    /\ UNCHANGED <<outer_vars, config_vars, load_vars, domain_vars, ssl_vars, commit_idx, run_result>>

\* expiring_list: the map's values (in any order), sorted, each one notified
NotifyExpiringDomains(key_order) ==
    /\ pc = "notify_domains"
    /\ key_order \in Orders(DOMAIN expiring_domains)
    /\ LET values == [i \in DOMAIN key_order |-> expiring_domains[key_order[i]]]
           expiring_list == sort_by_days(values)
           st == NotifyExpirationList([notifiers |-> notifiers, calls |-> calls], expiring_list)
       IN  /\ notifiers' = st.notifiers
           /\ calls' = st.calls
    /\ pc' = "notify_ssl"
    /\ UNCHANGED <<outer_vars, config_vars, load_vars, domain_vars, ssl_vars, commit_idx, run_result>>

\* expiring_ssl_list: the map's values (in any order), sorted, each one notified
NotifyExpiringSsl(key_order) ==
    /\ pc = "notify_ssl"
    /\ key_order \in Orders(DOMAIN expiring_ssl)
    /\ LET values == [i \in DOMAIN key_order |-> expiring_ssl[key_order[i]]]
           expiring_ssl_list == sort_by_days(values)
           st == NotifySslExpirationList([notifiers |-> notifiers, calls |-> calls],
                                         expiring_ssl_list)
       IN  /\ notifiers' = st.notifiers
           /\ calls' = st.calls
    /\ pc' = "commit"
    /\ UNCHANGED <<outer_vars, config_vars, load_vars, domain_vars, ssl_vars, commit_idx, run_result>>

\* a variant that returns the first commit error (notifier.commit().await?)
CommitNotifierPropagate(result) ==
    /\ pc = "commit"
    /\ commit_idx <= Len(notifiers)
    /\ calls' = Append(calls, [notifier |-> commit_idx, method |-> "commit", arg |-> result])
    /\ commit_idx' = commit_idx + 1
    /\ IF result.kind = "Err"
       THEN pc' = "done" /\ run_result' = "Err"
       ELSE UNCHANGED <<pc, run_result>>
    /\ UNCHANGED <<outer_vars, config_vars, load_vars, domain_vars, ssl_vars, notifiers>>

\* DomainCheckerService::commit, one iteration: the notifier's commit answered
\* `result`; an error is logged and the loop goes on
CommitNotifier(result) ==
    /\ pc = "commit"
    /\ commit_idx <= Len(notifiers)
    /\ calls' = Append(calls, [notifier |-> commit_idx, method |-> "commit", arg |-> result])
    /\ commit_idx' = commit_idx + 1
    /\ UNCHANGED <<outer_vars, config_vars, pc, load_vars, domain_vars, ssl_vars, notifiers, run_result>>

\* commit returns Ok(()) after its loop, and run returns Ok(())
ReturnOk ==
    /\ pc = "commit"
    /\ commit_idx > Len(notifiers)
    /\ pc' = "done"
    /\ run_result' = "Ok"
    /\ UNCHANGED <<outer_vars, config_vars, load_vars, domain_vars, ssl_vars, notify_vars>>

(***************************************************************************)
(* What the environment can answer.                                        *)
(***************************************************************************)
\* lists a source can return
HostsA == <<"a.example.com", "_acme-challenge.a.example.com">>
HostsB == <<"*.Example.com ", "b.example.org">>
HostsC == <<"a.example.com", "b.example.org", "www.example.net">>
HostsD == <<" B.Example.ORG", "*.example.com", "a.Example.com">>

SourceError == "No such file or directory (os error 2)"

\* error texts of check_domain_expiration and of check_ssl_expiry
ParseError == "Could not parse expiry date from WHOIS"
NoCertError == "No certificate found"
TimeoutError == "Connection timed out"
ErrorTexts ==
    { TimeoutError,
      "connection refused",
      "failed to lookup address information: Name or service not known",
      NoCertError,
      ParseError }

\* certificates a host can present: serial (hex) and issuer organization
CertA == [serial |-> "4D2", issuer |-> "Let's Encrypt"]
CertB == [serial |-> "FF01", issuer |-> "Unknown"]
CertC == [serial |-> "1E240", issuer |-> "ZeroSSL"]

\* check_ssl_expiry's Ok((expiry_datetime, serial, issuer))
SslOk(expiry, cert) ==
    Ok([expiry |-> expiry, serial |-> cert.serial, issuer |-> cert.issuer])

\* durations until expiry: every tick within MaxDays days, before and after
AllTicks == (-(MaxDays * TicksPerDay))..(MaxDays * TicksPerDay)
\* long expired
Expired == -(MaxDays * TicksPerDay)

CommitResults == {Ok("()"), Err("Failed to send message")}

(***************************************************************************)
(* Spec: the run's protocol, with several sources and notifiers.           *)
(***************************************************************************)
Init == InitWith(MaxSources, MaxNotifiers, {0}, {0})

Orchestrate ==
    \/ NotifySourceErrors
    \/ ReturnNoDomains
    \/ SpawnDomainTasks
    \/ JoinDomainTasks
    \/ \E root \in domain_results : AggregateDomainResult(root)
    \/ SpawnSslTasks
    \/ JoinSslTasks
    \/ \E hostname \in ssl_results : AggregateSslResult(hostname)
    \/ \E domain_order \in Orders(domain_failed), ssl_order \in Orders(ssl_failed) :
          NotifyFailures(domain_order, ssl_order)
    \/ \E key_order \in Orders(DOMAIN expiring_domains) : NotifyExpiringDomains(key_order)
    \/ \E key_order \in Orders(DOMAIN expiring_ssl) : NotifyExpiringSsl(key_order)
    \/ \E result \in CommitResults : CommitNotifier(result)
    \/ ReturnOk

Next ==
    \/ \E out \in {Ok(<<>>), Ok(HostsA), Ok(HostsB), Err(SourceError)} : LoadSource(out)
    \/ \E root \in DOMAIN domain_tasks,
          outcome \in {Ok(now + Expired), Err(ParseError), Panicked} :
          DomainTaskEnds(root, outcome)
    \/ \E hostname \in DOMAIN ssl_tasks,
          outcome \in {SslOk(now + Expired, CertA), Err(NoCertError), Panicked} :
          SslTaskEnds(hostname, outcome)
    \/ Orchestrate

Spec == Init /\ [][Next]_vars

\* Spec for runs whose spawned probe tasks all terminate: run is one sequential
\* async function that the runtime resumes whenever the call it awaits has
\* answered, so a step that stays possible is taken
SpecTerminating == Init /\ [][Next]_vars /\ WF_vars(Next)

(***************************************************************************)
(* SpecDomains: one source, one notifier, every answer of the WHOIS probe. *)
(***************************************************************************)
InitDomains == InitWith(1, 1, {-1, 0, 4}, {0})

NextDomains ==
    \/ \E out \in {Ok(HostsB), Err(SourceError)} : LoadSource(out)
    \/ \E root \in DOMAIN domain_tasks, d \in AllTicks : DomainTaskEnds(root, Ok(now + d))
    \/ \E root \in DOMAIN domain_tasks, e \in ErrorTexts : DomainTaskEnds(root, Err(e))
    \/ \E root \in DOMAIN domain_tasks : DomainTaskEnds(root, Panicked)
    \/ \E hostname \in DOMAIN ssl_tasks : SslTaskEnds(hostname, Err(TimeoutError))
    \/ Orchestrate

SpecDomains == InitDomains /\ [][NextDomains]_vars

(***************************************************************************)
(* SpecSsl: one source, one notifier, every answer of the TLS probe.       *)
(***************************************************************************)
InitSsl == InitWith(1, 1, {0}, {-1, 0, 4})

NextSsl ==
    \/ \E out \in {Ok(HostsB), Err(SourceError)} : LoadSource(out)
    \/ \E root \in DOMAIN domain_tasks : DomainTaskEnds(root, Ok(now + Expired))
    \/ \E hostname \in DOMAIN ssl_tasks, d \in AllTicks, cert \in {CertA, CertB} :
          SslTaskEnds(hostname, SslOk(now + d, cert))
    \/ \E hostname \in DOMAIN ssl_tasks, e \in ErrorTexts : SslTaskEnds(hostname, Err(e))
    \/ \E hostname \in DOMAIN ssl_tasks : SslTaskEnds(hostname, Panicked)
    \/ Orchestrate

SpecSsl == InitSsl /\ [][NextSsl]_vars

(***************************************************************************)
(* SpecEntries: three roots and three candidates, all flagged, with equal  *)
(* and different days and serials.                                         *)
(***************************************************************************)
InitEntries == InitWith(1, 1, {0}, {0})

NextEntries ==
    \/ \E out \in {Ok(HostsC), Err(SourceError)} : LoadSource(out)
    \/ \E root \in DOMAIN domain_tasks, d \in {Expired, TicksPerDay, 2 * TicksPerDay} :
          DomainTaskEnds(root, Ok(now + d))
    \/ \E hostname \in DOMAIN ssl_tasks, d \in {Expired, TicksPerDay}, cert \in {CertA, CertB} :
          SslTaskEnds(hostname, SslOk(now + d, cert))
    \/ \E hostname \in DOMAIN ssl_tasks : SslTaskEnds(hostname, SslOk(now, CertC))
    \/ Orchestrate

SpecEntries == InitEntries /\ [][NextEntries]_vars

(***************************************************************************)
(* SpecKeys: several sources whose hostnames differ by letter case,        *)
(* surrounding whitespace, subdomain and wildcard prefix.                  *)
(***************************************************************************)
InitKeys == InitWith(MaxSources, 1, {0}, {0})

NextKeys ==
    \/ \E out \in {Ok(HostsB), Ok(HostsD), Err(SourceError)} : LoadSource(out)
    \/ \E root \in DOMAIN domain_tasks, outcome \in {Ok(now + Expired), Err(ParseError)} :
          DomainTaskEnds(root, outcome)
    \/ \E hostname \in DOMAIN ssl_tasks,
          outcome \in {SslOk(now + Expired, CertA), Err(NoCertError)} :
          SslTaskEnds(hostname, outcome)
    \/ Orchestrate

SpecKeys == InitKeys /\ [][NextKeys]_vars

(***************************************************************************)
(* SpecExpired: expirations in the past and in the future on both sides,   *)
(* under thresholds below, among and above them.                           *)
(***************************************************************************)
AlarmChoices == {-(MaxDays + 1), -1, MaxDays}
InitExpired == InitWith(1, MaxNotifiers, AlarmChoices, AlarmChoices)

\* long expired, expired a day ago, expired within the last day, far from expiry
ExpiryChoices == {Expired, -TicksPerDay, -1, MaxDays * TicksPerDay}

NextExpired ==
    \/ \E out \in {Ok(HostsB), Err(SourceError)} : LoadSource(out)
    \/ \E root \in DOMAIN domain_tasks, d \in ExpiryChoices : DomainTaskEnds(root, Ok(now + d))
    \/ \E hostname \in DOMAIN ssl_tasks, d \in ExpiryChoices, cert \in {CertA, CertB} :
          SslTaskEnds(hostname, SslOk(now + d, cert))
    \/ Orchestrate

SpecExpired == InitExpired /\ [][NextExpired]_vars

(***************************************************************************)
(* SpecNormalize: to_root_domain and filter_domain, each called once on a  *)
(* hostname built from up to MaxLabels labels.                             *)
(***************************************************************************)
\* the largest number of labels of a hostname
MaxLabels == 3

\* labels: empty, plain, mixed case, of a multi-label suffix, the wildcard, a
\* TXT-record label in lower and in mixed case, and labels that hold one inside
LabelChoices ==
    {"", "a", "Example", "com", "co", "uk", "*", "_dmarc", "_Spf", "x_dmarc", "_spf1"}

\* what surrounds the hostname in the source's answer
Paddings == {<<"", "">>, <<" ", "\n">>}

DomainChoices ==
    {pad[1] \o join(labels, ".") \o pad[2] :
        labels \in UNION {[1..n -> LabelChoices] : n \in 0..MaxLabels}, pad \in Paddings}

InitNormalize ==
    /\ NewService(1, 1, {0}, {0})
    /\ normalizer \in [domain : DomainChoices, to_root_domain : {Pending}, filter_domain : {Pending}]
    /\ whois = NotParsed
    /\ telegram = NotSending
    /\ main_loop = NotLooping
    /\ formatter = NotFormatting

\* let root = self.to_root_domain(domain)
CallToRootDomain ==
    /\ normalizer.to_root_domain = Pending
    /\ normalizer' = [normalizer EXCEPT !.to_root_domain = to_root_domain(normalizer.domain)]
    /\ UNCHANGED <<run_vars, whois, telegram, main_loop, formatter>>

\* let candidate = self.filter_domain(domain)
CallFilterDomain ==
    /\ normalizer.filter_domain = Pending
    /\ normalizer' = [normalizer EXCEPT !.filter_domain = filter_domain(normalizer.domain)]
    /\ UNCHANGED <<run_vars, whois, telegram, main_loop, formatter>>

NextNormalize ==
    \/ CallToRootDomain
    \/ CallFilterDomain

SpecNormalize == InitNormalize /\ [][NextNormalize]_vars


(***************************************************************************)
(* SpecWhois: parse_whois_expiry, called once on a WHOIS answer of up to   *)
(* MaxLines lines.                                                         *)
(***************************************************************************)
\* the largest number of lines of a WHOIS answer
MaxLines == 2

\* lines without a label, with a label in several letter cases and a date in
\* every accepted format, with a label and no date, with a colon before the
\* label, with a label's words and no colon, and with a date that does not exist
LineChoices ==
    {"Domain Name: EXAMPLE.COM",
     "Registry Expiry Date: 2025-08-13T04:00:00Z",
     "Expiry Date: 2025-01-01",
     "expiry date: 2025-01-01",
     "paid-till: 2026.01.31",
     "   Expiration Date: 31-Jan-2026 \r",
     "expires: never",
     "Note: expires: 2026-01-31",
     "EXPIRE: 31/01/2026",
     "Expiration Time: 2026-01-31 10:20:30",
     "expires 2026-01-31",
     "Registrar Registration Expiration Date: 2026-02-30",
     "Expires: 31.01.2026"}

WhoisTexts ==
    {join(ls, "\n") : ls \in UNION {[1..n -> LineChoices] : n \in 0..MaxLines}}

InitWhois ==
    /\ NewService(1, 1, {0}, {0})
    /\ normalizer = NotNormalized
    /\ whois \in [whois_text : WhoisTexts, parse_whois_expiry : {Pending}]
    /\ telegram = NotSending
    /\ main_loop = NotLooping
    /\ formatter = NotFormatting

\* Self::parse_whois_expiry(&lookup_result)
CallParseWhoisExpiry ==
    /\ whois.parse_whois_expiry = Pending
    /\ whois' = [whois EXCEPT !.parse_whois_expiry = parse_whois_expiry(whois.whois_text)]
    /\ UNCHANGED <<run_vars, normalizer, telegram, main_loop, formatter>>

NextWhois == CallParseWhoisExpiry

SpecWhois == InitWhois /\ [][NextWhois]_vars

(***************************************************************************)
(* SpecNotifier: one Telegram notifier with up to MaxRetries retries: up   *)
(* to MaxRecords record calls, and one commit with its sends.              *)
(***************************************************************************)
MaxRetries == 2
MaxRecords == 2

SslEntryChoices ==
    {SslEntry("test.example.com", -TicksPerDay, CertA.serial, CertA.issuer, -1, 2),
     SslEntry("b.example.org", 4 * TicksPerDay, CertB.serial, CertB.issuer, 4, 1)}
DomainEntryChoices ==
    {DomainEntry("example.com", 2 * TicksPerDay, 2), DomainEntry("example.org", 0, 0)}
\* s, n times over
RECURSIVE Repeat(_, _)
Repeat(s, n) ==
    IF n = 0 THEN ""
    ELSE IF n % 2 = 1 THEN s \o Repeat(s, n - 1)
    ELSE Bind([half \in {Repeat(s, n \div 2)} |-> half \o half])

\* the summary run makes of FailedDomains failed roots, which fills half a message
FailedDomains == 127
LongError ==
    "Check error of " \o ToString(FailedDomains) \o " domains"
        \o Repeat("\n- a.example.com", FailedDomains)

ExceptionChoices == {SourceError, "WHOIS failed for <example.net> & others", LongError}

\* what the Bot API does with a post: a success status, another status, or no
\* answer (transport error, timeout)
Answers == {"success", "status", "transport"}

InitNotifier ==
    /\ NewService(1, 1, {0}, {0})
    /\ normalizer = NotNormalized
    /\ whois = NotParsed
    /\ telegram \in {NewTelegram(retries) : retries \in 0..MaxRetries}
    /\ main_loop = NotLooping
    /\ formatter = NotFormatting

RecordsMade == Cardinality({i \in DOMAIN calls : calls[i].method # "commit"})

\* notifier.ssl_expiration(&entry)
CallSslExpiration(entry) ==
    /\ telegram.pc = "idle"
    /\ RecordsMade < MaxRecords
    /\ notifiers' = [notifiers EXCEPT ![1] = ssl_expiration(@, entry)]
    /\ calls' = Append(calls, [notifier |-> 1, method |-> "ssl_expiration", arg |-> entry])
    /\ UNCHANGED <<outer_vars, service_rest>>

\* a variant that posts the message at once
CallExceptionSending(msg) ==
    /\ telegram.pc = "idle"
    /\ RecordsMade < MaxRecords
    /\ notifiers' = [notifiers EXCEPT ![1] = exception(@, msg)]
    /\ calls' = Append(calls, [notifier |-> 1, method |-> "exception", arg |-> msg])
    /\ telegram' = [telegram EXCEPT !.posted = Append(@, msg)]
    /\ UNCHANGED <<normalizer, whois, main_loop, formatter, service_rest>>

\* notifier.exception(&msg)
CallException(msg) ==
    /\ telegram.pc = "idle"
    /\ RecordsMade < MaxRecords
    /\ notifiers' = [notifiers EXCEPT ![1] = exception(@, msg)]
    /\ calls' = Append(calls, [notifier |-> 1, method |-> "exception", arg |-> msg])
    /\ UNCHANGED <<outer_vars, service_rest>>

\* notifier.expiration(&entry)
CallExpiration(entry) ==
    /\ telegram.pc = "idle"
    /\ RecordsMade < MaxRecords
    /\ notifiers' = [notifiers EXCEPT ![1] = expiration(@, entry)]
    /\ calls' = Append(calls, [notifier |-> 1, method |-> "expiration", arg |-> entry])
    /\ UNCHANGED <<outer_vars, service_rest>>

\* notifier.commit(), up to the first send: the three buffers are formatted
CallCommit ==
    /\ telegram.pc = "idle"
    /\ telegram.committed = "none"
    /\ telegram' = [telegram EXCEPT !.pc = "send_messages",
                                    !.queue = CommitTexts(notifiers[1])]
    /\ UNCHANGED <<normalizer, whois, main_loop, formatter, run_vars>>

\* self.send_message(&text): the loop over the attempts begins
SendMessage ==
    /\ telegram.pc = "send_messages"
    /\ telegram.queue # <<>>
    /\ telegram' = [telegram EXCEPT !.pc = "post", !.attempt = 0,
                                    !.events = <<>>, !.returned = "none"]
    /\ UNCHANGED <<normalizer, whois, main_loop, formatter, run_vars>>

PostEvent(answer) ==
    [kind |-> "post", text |-> Head(telegram.queue),
     attempt |-> telegram.attempt, answer |-> answer]

SendError == Err("Failed to send message after " \o ToString(telegram.retries) \o " retries")

\* a variant of commit that logs a failed send and goes on with the next text
PostSkippingFailed(answer) ==
    /\ telegram.pc = "post"
    /\ IF answer = "success"
       THEN telegram' = [telegram EXCEPT !.events = Append(@, PostEvent(answer)),
                                         !.returned = "Ok",
                                         !.posted = Append(@, Head(telegram.queue)),
                                         !.queue = Tail(@),
                                         !.pc = "send_messages"]
       ELSE IF telegram.attempt = telegram.retries
       THEN telegram' = [telegram EXCEPT !.events = Append(@, PostEvent(answer)),
                                         !.returned = "Err",
                                         !.queue = Tail(@),
                                         !.pc = "send_messages"]
       ELSE telegram' = [telegram EXCEPT !.events = Append(@, PostEvent(answer)),
                                         !.pc = "sleep"]
    /\ UNCHANGED <<normalizer, whois, main_loop, formatter, run_vars>>

\* a variant whose loop is `for attempt in 0..self.retries`, left after the
\* last attempt of that range
PostExclusiveRange(answer) ==
    /\ telegram.pc = "post"
    /\ IF answer = "success"
       THEN /\ telegram' = [telegram EXCEPT !.events = Append(@, PostEvent(answer)),
                                            !.returned = "Ok",
                                            !.posted = Append(@, Head(telegram.queue)),
                                            !.queue = Tail(@),
                                            !.pc = "send_messages"]
            /\ UNCHANGED calls
       ELSE IF telegram.attempt + 1 >= telegram.retries
       THEN /\ telegram' = [telegram EXCEPT !.events = Append(@, PostEvent(answer)),
                                            !.returned = "Err",
                                            !.committed = "Err",
                                            !.pc = "idle"]
            /\ calls' = Append(calls, [notifier |-> 1, method |-> "commit", arg |-> SendError])
       ELSE /\ telegram' = [telegram EXCEPT !.events = Append(@, PostEvent(answer)),
                                            !.pc = "sleep"]
            /\ UNCHANGED calls
    /\ UNCHANGED <<normalizer, whois, main_loop, formatter, service_rest, notifiers>>

\* send_message, one attempt: the post and its answer.  A success status
\* returns Ok(()) to send_messages; a failure at the last attempt returns the
\* error, which send_messages and commit pass on with `?`
Post(answer) ==
    /\ telegram.pc = "post"
    /\ IF answer = "success"
       THEN /\ telegram' = [telegram EXCEPT !.events = Append(@, PostEvent(answer)),
                                            !.returned = "Ok",
                                            !.posted = Append(@, Head(telegram.queue)),
                                            !.queue = Tail(@),
                                            !.pc = "send_messages"]
            /\ UNCHANGED calls
       ELSE IF telegram.attempt = telegram.retries
       THEN /\ telegram' = [telegram EXCEPT !.events = Append(@, PostEvent(answer)),
                                            !.returned = "Err",
                                            !.committed = "Err",
                                            !.pc = "idle"]
            /\ calls' = Append(calls, [notifier |-> 1, method |-> "commit", arg |-> SendError])
       ELSE /\ telegram' = [telegram EXCEPT !.events = Append(@, PostEvent(answer)),
                                            !.pc = "sleep"]
            /\ UNCHANGED calls
    /\ UNCHANGED <<normalizer, whois, main_loop, formatter, service_rest, notifiers>>

\* tokio::time::sleep(self.retry_interval).await, and the next attempt begins
Sleep ==
    /\ telegram.pc = "sleep"
    /\ telegram' = [telegram EXCEPT
           !.events = Append(@, [kind |-> "sleep", secs |-> telegram.retry_interval]),
           !.attempt = @ + 1,
           !.pc = "post"]
    /\ UNCHANGED <<normalizer, whois, main_loop, formatter, run_vars>>

\* commit returns Ok(()) after the last send
CommitReturns ==
    /\ telegram.pc = "send_messages"
    /\ telegram.queue = <<>>
    /\ telegram' = [telegram EXCEPT !.committed = "Ok", !.pc = "idle"]
    /\ calls' = Append(calls, [notifier |-> 1, method |-> "commit", arg |-> Ok("()")])
    /\ UNCHANGED <<normalizer, whois, main_loop, formatter, service_rest, notifiers>>

\* the steps of commit once it is called
CommitSteps ==
    \/ SendMessage
    \/ \E answer \in Answers : Post(answer)
    \/ Sleep
    \/ CommitReturns

NextNotifier ==
    \/ \E entry \in SslEntryChoices : CallSslExpiration(entry)
    \/ \E msg \in ExceptionChoices : CallException(msg)
    \/ \E entry \in DomainEntryChoices : CallExpiration(entry)
    \/ CallCommit
    \/ CommitSteps

\* every post is answered or times out (the client's timeout), every sleep
\* ends, and commit is resumed: a step of commit that is possible is taken
SpecNotifier == InitNotifier /\ [][NextNotifier]_vars /\ WF_vars(CommitSteps)

(***************************************************************************)
(* main: one run in single-shot mode, one run per tick of the interval in  *)
(* periodic mode, from the point where logging is initialised.             *)
(***************************************************************************)
\* the ticks of the interval that the model lets elapse
MaxTicks == 4

\* main after init_logging, env::args() holding "single_shot" or not
NewMain(mode) ==
    [mode |-> mode,
     pc |-> "start",       \* start, tick (interval.tick().await), run_check, exited
     elapsed |-> 0,        \* the ticks of the interval that have come due
     due |-> 0,            \* those of them that no call of tick has consumed
     runs |-> 0,           \* history: the runs started
     running |-> 0,        \* history: the runs started and not returned
     results |-> <<>>,     \* history: what each run returned, and the calls it made
     exit |-> "none"]      \* what main returned

\* a variant that keeps the notifiers of the service built first
BuildServiceOnce(n_sources, n_notifiers) ==
    /\ sources' = [i \in 1..n_sources |-> SourceName(i)]
    /\ notifiers' = IF Len(notifiers) = n_notifiers THEN notifiers
                    ELSE [i \in 1..n_notifiers |-> NewNotifier]
    /\ pc' = "load_sources"
    /\ src_idx' = 1
    /\ hostnames' = {}
    /\ source_errors' = <<>>
    /\ domain_tasks' = EmptyMap
    /\ domain_results' = {}
    /\ expiring_domains' = EmptyMap
    /\ domain_failed' = {}
    /\ ssl_tasks' = EmptyMap
    /\ ssl_results' = {}
    /\ expiring_ssl' = EmptyMap
    /\ ssl_failed' = {}
    /\ commit_idx' = 1
    /\ run_result' = "none"
    /\ calls' = <<>>
    /\ loaded' = <<>>
    /\ UNCHANGED <<alarm_days, ssl_alarm_days, now>>

\* run_check: SERVICES.domain_checker() builds the sources, the notifiers and
\* the service, and run is entered
BuildService(n_sources, n_notifiers) ==
    /\ sources' = [i \in 1..n_sources |-> SourceName(i)]
    /\ notifiers' = [i \in 1..n_notifiers |-> NewNotifier]
    /\ pc' = "load_sources"
    /\ src_idx' = 1
    /\ hostnames' = {}
    /\ source_errors' = <<>>
    /\ domain_tasks' = EmptyMap
    /\ domain_results' = {}
    /\ expiring_domains' = EmptyMap
    /\ domain_failed' = {}
    /\ ssl_tasks' = EmptyMap
    /\ ssl_results' = {}
    /\ expiring_ssl' = EmptyMap
    /\ ssl_failed' = {}
    /\ commit_idx' = 1
    /\ run_result' = "none"
    /\ calls' = <<>>
    /\ loaded' = <<>>
    /\ UNCHANGED <<alarm_days, ssl_alarm_days, now>>

\* args hold "single_shot": run_check().await is entered
StartSingleShot(n_sources, n_notifiers) ==
    /\ main_loop.pc = "start"
    /\ main_loop.mode = "single_shot"
    /\ main_loop' = [main_loop EXCEPT !.pc = "run_check", !.runs = @ + 1, !.running = @ + 1]
    /\ BuildService(n_sources, n_notifiers)
    /\ UNCHANGED <<normalizer, whois, telegram, formatter>>

\* tokio::time::interval(..): the first tick is due at once
StartInterval ==
    /\ main_loop.pc = "start"
    /\ main_loop.mode = "periodic"
    /\ main_loop' = [main_loop EXCEPT !.pc = "tick", !.elapsed = 1, !.due = 1]
    /\ UNCHANGED <<normalizer, whois, telegram, formatter, run_vars>>

\* the period of the interval has passed once more; a tick that is not
\* awaited stays due
TimerElapses ==
    /\ main_loop.pc \in {"tick", "run_check"}
    /\ main_loop.mode = "periodic"
    /\ main_loop.elapsed < MaxTicks
    /\ main_loop' = [main_loop EXCEPT !.elapsed = @ + 1, !.due = @ + 1]
    /\ UNCHANGED <<normalizer, whois, telegram, formatter, run_vars>>

\* interval.tick().await returns and run_check().await is entered
Tick(n_sources, n_notifiers) ==
    /\ main_loop.pc = "tick"
    /\ main_loop.due > 0
    /\ main_loop' = [main_loop EXCEPT !.pc = "run_check", !.due = @ - 1,
                                      !.runs = @ + 1, !.running = @ + 1]
    /\ BuildService(n_sources, n_notifiers)
    /\ UNCHANGED <<normalizer, whois, telegram, formatter>>

\* a variant whose loop passes the error of a run on (run_check().await?)
RunCheckReturnsPropagating ==
    /\ main_loop.pc = "run_check"
    /\ pc = "done"
    /\ main_loop' = [main_loop EXCEPT
           !.running = @ - 1,
           !.results = Append(@, [result |-> run_result, calls |-> Len(calls)]),
           !.pc = IF main_loop.mode = "single_shot" \/ run_result = "Err"
                  THEN "exited" ELSE "tick",
           !.exit = IF main_loop.mode = "single_shot" \/ run_result = "Err"
                    THEN run_result ELSE @]
    /\ UNCHANGED <<normalizer, whois, telegram, formatter, run_vars>>

\* run_check() returns: in single-shot mode main returns what the run
\* returned; in the loop an error is logged and the next tick is awaited
RunCheckReturns ==
    /\ main_loop.pc = "run_check"
    /\ pc = "done"
    /\ main_loop' = [main_loop EXCEPT
           !.running = @ - 1,
           !.results = Append(@, [result |-> run_result, calls |-> Len(calls)]),
           !.pc = IF main_loop.mode = "single_shot" THEN "exited" ELSE "tick",
           !.exit = IF main_loop.mode = "single_shot" THEN run_result ELSE @]
    /\ UNCHANGED <<normalizer, whois, telegram, formatter, run_vars>>

(***************************************************************************)
(* SpecMain: main around a run of which only the result is kept:           *)
(* anyhow::Result<()>, Ok or Err.                                          *)
(***************************************************************************)
InitMain ==
    /\ NewService(0, 0, {0}, {0})
    /\ normalizer = NotNormalized
    /\ whois = NotParsed
    /\ telegram = NotSending
    /\ main_loop \in {NewMain(mode) : mode \in {"single_shot", "periodic"}}
    /\ formatter = NotFormatting

\* domain_checker.run().await answers
RunAnswers(result) ==
    /\ main_loop.running > 0
    /\ pc = "load_sources"
    /\ pc' = "done"
    /\ run_result' = result
    /\ UNCHANGED <<outer_vars, config_vars, load_vars, domain_vars, ssl_vars, notify_vars>>

MainSteps ==
    \/ StartSingleShot(0, 0)
    \/ StartInterval
    \/ Tick(0, 0)
    \/ RunCheckReturns

NextMain ==
    \/ MainSteps
    \/ TimerElapses
    \/ \E result \in {"Ok", "Err"} : RunAnswers(result)

\* main is resumed when the tick or the run it awaits is there, and the run
\* returns (C18); time need not pass
SpecMain ==
    InitMain /\ [][NextMain]_vars
        /\ WF_vars(MainSteps) /\ WF_vars(\E result \in {"Ok", "Err"} : RunAnswers(result))

(***************************************************************************)
(* SpecPeriodic: the loop of main around the run itself, one source and    *)
(* two notifiers.                                                          *)
(***************************************************************************)
InitPeriodic ==
    /\ NewService(0, 0, {0}, {0})
    /\ normalizer = NotNormalized
    /\ whois = NotParsed
    /\ telegram = NotSending
    /\ main_loop = NewMain("periodic")
    /\ formatter = NotFormatting

\* the steps of the run that main awaits
RunSteps ==
    /\ main_loop.pc = "run_check"
    /\ \/ \E out \in {Ok(HostsA), Err(SourceError)} : LoadSource(out)
       \/ \E root \in DOMAIN domain_tasks, outcome \in {Ok(now + Expired), Err(ParseError)} :
             DomainTaskEnds(root, outcome)
       \/ \E hostname \in DOMAIN ssl_tasks,
             outcome \in {SslOk(now + Expired, CertA), Err(NoCertError)} :
             SslTaskEnds(hostname, outcome)
       \/ Orchestrate

NextPeriodic ==
    \/ StartInterval
    \/ TimerElapses
    \/ Tick(1, 2)
    \/ RunSteps
    \/ RunCheckReturns

SpecPeriodic == InitPeriodic /\ [][NextPeriodic]_vars

(***************************************************************************)
(* SpecFormatDays: format_days, called once on a day count; the build is   *)
(* one with or without overflow checks.                                    *)
(***************************************************************************)
\* the largest day count next to zero
MaxDayCount == 120

\* the day counts around zero and the ends of i32
DayCounts == (-MaxDayCount..MaxDayCount) \cup {I32_MIN, I32_MIN + 1, I32_MAX - 1, I32_MAX}

\* the values of the outer variables a formatting specification does not use
FormatterAlone ==
    /\ NewService(1, 1, {0}, {0})
    /\ normalizer = NotNormalized
    /\ whois = NotParsed
    /\ telegram = NotSending
    /\ main_loop = NotLooping

formatter_rest == <<run_vars, normalizer, whois, telegram, main_loop>>

InitFormatDays ==
    /\ FormatterAlone
    /\ formatter \in [n : DayCounts, format_days : {Pending}]

\* self.format_days(days)
CallFormatDays(overflow_checks) ==
    /\ formatter.format_days = Pending
    /\ formatter' = [formatter EXCEPT !.format_days =
           IF overflow_checks /\ abs_overflows(formatter.n) THEN Panicked
           ELSE Ok(format_days(formatter.n))]
    /\ UNCHANGED formatter_rest

NextFormatDays == \E overflow_checks \in BOOLEAN : CallFormatDays(overflow_checks)

SpecFormatDays == InitFormatDays /\ [][NextFormatDays]_vars


(***************************************************************************)
(* SpecChunks: chunk_messages and send_messages, called once on a header   *)
(* and up to MaxMessages messages whose lengths lie around the limit.      *)
(***************************************************************************)
\* the largest number of messages of a category
MaxMessages == 3

\* the length of the longest message the header leaves room for in a chunk,
\* as chunk_messages counts
Room(header) == MAX_MESSAGE_LENGTH - (Len(header) + 2) - 2

\* messages that are short, that fill half a chunk, that fill a chunk but for
\* one character, that fill it, and that pass the limit alone
MessagesFor(header) ==
    {Repeat("x", n) : n \in {1, Room(header) \div 2, Room(header) - 1,
                             Room(header), Room(header) + 1}}

ChunkArguments ==
    UNION {[header : {header},
            messages : UNION {[1..n -> MessagesFor(header)] : n \in 0..MaxMessages},
            chunk_messages : {Pending},
            send_messages : {Pending}] : header \in {SslHeader, ErrorsHeader}}

InitChunks ==
    /\ FormatterAlone
    /\ formatter \in ChunkArguments

\* self.chunk_messages(header, &messages)
CallChunkMessages ==
    /\ formatter.chunk_messages = Pending
    /\ formatter' = [formatter EXCEPT !.chunk_messages =
                         Ok(chunk_messages(formatter.header, formatter.messages))]
    /\ UNCHANGED formatter_rest

\* self.send_messages(header, messages), every send_message answering Ok(()):
\* the texts it has passed to send_message
CallSendMessages ==
    /\ formatter.send_messages = Pending
    /\ formatter' = [formatter EXCEPT !.send_messages =
                         Ok(SendTexts(formatter.header, formatter.messages))]
    /\ UNCHANGED formatter_rest

NextChunks ==
    \/ CallChunkMessages
    \/ CallSendMessages

SpecChunks == InitChunks /\ [][NextChunks]_vars


(***************************************************************************)
(* SpecFormatEntries: one entry of the aggregator, formatted by the        *)
(* Telegram notifier and by the console notifier.                          *)
(***************************************************************************)
\* the largest duplicate count of a certificate entry
MaxMore == 3

\* the certificate entries run inserts into expiring_ssl, `now` being 0
SslEntriesOfRun ==
    {SslEntry(hostname, days * TicksPerDay, cert.serial, cert.issuer, days, more) :
        hostname \in {"test.example.com", "b.example.org"}, cert \in {CertA, CertB},
        days \in (-MaxDays)..MaxDays, more \in 1..MaxMore}

\* the domain entries run inserts into expiring_domains
DomainEntriesOfRun ==
    {DomainEntry(root, days * TicksPerDay, days) :
        root \in {"example.com", "example.org"}, days \in (-MaxDays)..MaxDays}

InitFormatEntries ==
    /\ FormatterAlone
    /\ formatter \in
           [kind : {"ssl"}, entry : SslEntriesOfRun, telegram : {Pending}, console : {Pending}]
               \cup [kind : {"domain"}, entry : DomainEntriesOfRun,
                     telegram : {Pending}, console : {Pending}]

\* TelegramNotifierService: the message commit makes of the entry
TelegramFormats ==
    /\ formatter.telegram = Pending
    /\ formatter' = [formatter EXCEPT !.telegram =
           Ok(IF formatter.kind = "ssl" THEN FormatSslEntry(formatter.entry)
              ELSE FormatDomainEntry(formatter.entry))]
    /\ UNCHANGED formatter_rest

\* ConsoleNotifierService: the message commit makes of the entry
ConsoleFormats ==
    /\ formatter.console = Pending
    /\ formatter' = [formatter EXCEPT !.console =
           Ok(IF formatter.kind = "ssl" THEN ConsoleFormatSslEntry(formatter.entry)
              ELSE ConsoleFormatDomainEntry(formatter.entry))]
    /\ UNCHANGED formatter_rest

NextFormatEntries ==
    \/ TelegramFormats
    \/ ConsoleFormats

SpecFormatEntries == InitFormatEntries /\ [][NextFormatEntries]_vars


(***************************************************************************)
(* Reading the state and the history.                                      *)
(***************************************************************************)
PcOrder ==
    << "load_sources", "loaded", "probe_domains", "aggregate_domains", "probe_ssl",
       "aggregate_ssl", "notify_domains", "notify_ssl", "commit", "done" >>
Stage(p) == CHOOSE i \in DOMAIN PcOrder : PcOrder[i] = p
Reached(p) == Stage(pc) >= Stage(p)

AllSourcesInvoked == Len(loaded) = Len(sources)
SomeSourceFailed == \E i \in DOMAIN loaded : loaded[i].kind = "Err"
\* the hostnames the successful sources returned
SuccessfulHostnames ==
    UNION {Range(loaded[i].val) : i \in {j \in DOMAIN loaded : loaded[j].kind = "Ok"}}

\* the root and the TLS candidate of every hostname a source of the model returns
KnownHostnames == Range(HostsA) \cup Range(HostsB) \cup Range(HostsC) \cup Range(HostsD)
RootTable == [h \in KnownHostnames |-> to_root_domain(h)]
CandidateTable == [h \in KnownHostnames |-> filter_domain(h)]

CallIdx(n, method) == {i \in DOMAIN calls : calls[i].notifier = n /\ calls[i].method = method}
RecordMethods == {"exception", "expiration", "ssl_expiration"}

IsSourceErrorText(msg) == starts_with(msg, "Source load error: ")
IsDomainSummaryText(msg) ==
    \/ starts_with(msg, "Domain check error: ")
    \/ starts_with(msg, "Check error of ") /\ contains(msg, " domains\n")
IsSslSummaryText(msg) ==
    \/ starts_with(msg, "Certificate check error: ")
    \/ starts_with(msg, "Check error of ") /\ contains(msg, " SSL certificates\n")

\* WHOIS roots and TLS hostnames whose result the aggregation loops have consumed
AggregatedRoots ==
    IF Reached("aggregate_domains") THEN DOMAIN domain_tasks \ domain_results ELSE {}
AggregatedSslHosts ==
    IF Reached("aggregate_ssl") THEN DOMAIN ssl_tasks \ ssl_results ELSE {}

DomainDays(root) == num_days(domain_tasks[root].val - now)
SslDays(hostname) == num_days(ssl_tasks[hostname].val.expiry - now)

(***************************************************************************)
(* C1: when get_domains of some source fails, every source is still        *)
(* invoked, the hostnames of the successful sources are the ones           *)
(* normalized and probed (one WHOIS task per root, one TLS task per        *)
(* candidate, all ended before run returns), and no notifier is called     *)
(* before the last source has been invoked.                                *)
(***************************************************************************)
C1_SourceFailureIsolated ==
    SomeSourceFailed =>
        LET successful == SuccessfulHostnames
        IN  /\ Reached("loaded") => AllSourcesInvoked
            /\ ~AllSourcesInvoked => calls = <<>>
            /\ hostnames = successful
            /\ (Reached("probe_domains") /\ successful # {}) =>
                  DOMAIN domain_tasks =
                      {RootTable[h].val : h \in {x \in successful : RootTable[x].some}}
            /\ (Reached("probe_ssl") /\ successful # {}) =>
                  DOMAIN ssl_tasks =
                      {CandidateTable[h].val : h \in {x \in successful : CandidateTable[x].some}}
            /\ (pc = "done" /\ successful # {}) =>
                  /\ \A root \in DOMAIN domain_tasks : domain_tasks[root] # Running
                  /\ \A hostname \in DOMAIN ssl_tasks : ssl_tasks[hostname] # Running

C1_Witness ==
    /\ pc = "done"
    /\ Len(loaded) >= 2
    /\ loaded[1].kind = "Err"
    /\ loaded[2] = Ok(HostsB)
    /\ DOMAIN domain_tasks = {"example.com", "example.org"}
    /\ DOMAIN ssl_tasks = {"test.example.com", "b.example.org"}
    /\ \E i \in DOMAIN calls : calls[i].method = "exception" /\ IsSourceErrorText(calls[i].arg)

(***************************************************************************)
(* C2: no record call follows a commit call; a run with a non-empty        *)
(* hostname set returns Ok with exactly one commit call on every notifier, *)
(* also on the notifiers after one whose commit failed.                    *)
(***************************************************************************)
C2_CommitOnceOnEveryNotifier ==
    /\ \A i, j \in DOMAIN calls :
          (i < j /\ calls[i].method = "commit") => calls[j].method = "commit"
    /\ (pc = "done" /\ hostnames # {}) =>
          /\ run_result = "Ok"
          /\ \A n \in DOMAIN notifiers : Cardinality(CallIdx(n, "commit")) = 1
          /\ \A i \in DOMAIN calls :
                (calls[i].method = "commit" /\ calls[i].arg.kind = "Err") =>
                    \A n \in DOMAIN notifiers :
                        n > calls[i].notifier => \E j \in CallIdx(n, "commit") : j > i

C2_Witness ==
    /\ pc = "done"
    /\ hostnames # {}
    /\ run_result = "Ok"
    /\ \E i \in CallIdx(1, "commit") : calls[i].arg.kind = "Err"
    /\ CallIdx(2, "commit") # {}
    /\ CallIdx(2, "expiration") # {}

(***************************************************************************)
(* C3 as stated: with an empty hostname set run returns Ok without any     *)
(* probe and without any call on any notifier.                             *)
(***************************************************************************)
C3_NoNotifierCallAtAll ==
    (pc = "done" /\ hostnames = {}) =>
        /\ run_result = "Ok"
        /\ DOMAIN domain_tasks = {} /\ DOMAIN ssl_tasks = {}
        /\ calls = <<>>

(***************************************************************************)
(* C3, amended: with an empty hostname set after all sources, run returns  *)
(* Ok without any probe and without any expiration, ssl_expiration or      *)
(* commit call; the only calls are the exception calls of the source       *)
(* errors, one per failed source on every notifier, so none at all when no *)
(* source failed.                                                          *)
(***************************************************************************)
C3_OnlySourceErrorsNotified ==
    (AllSourcesInvoked /\ hostnames = {}) =>
        /\ pc \in {"load_sources", "loaded", "done"}
        /\ pc = "done" => run_result = "Ok"
        /\ DOMAIN domain_tasks = {} /\ DOMAIN ssl_tasks = {}
        /\ \A i \in DOMAIN calls :
              calls[i].method = "exception" /\ calls[i].arg \in Range(source_errors)
        /\ Reached("loaded") =>
              \A n \in DOMAIN notifiers :
                  Cardinality(CallIdx(n, "exception")) =
                      Cardinality({i \in DOMAIN loaded : loaded[i].kind = "Err"})

C3_Witness ==
    /\ pc = "done"
    /\ hostnames = {}
    /\ run_result = "Ok"
    /\ loaded[1].kind = "Err"
    /\ loaded[2] = Ok(<<>>)
    /\ Len(calls) = Len(notifiers)

(***************************************************************************)
(* C4 as stated: a WHOIS failure whose text contains an expected-error     *)
(* substring does not enter domain_failed and causes no exception call.    *)
(***************************************************************************)
C4_ExpectedWhoisErrorSuppressed ==
    \A root \in AggregatedRoots :
        (/\ domain_tasks[root].kind = "Err"
         /\ \E exp_err \in EXPECTED_ERRORS : contains(domain_tasks[root].e, exp_err)) =>
            /\ ("- " \o root) \notin domain_failed
            /\ \A i \in DOMAIN calls :
                  calls[i].method = "exception" => ~contains(calls[i].arg, root)

(***************************************************************************)
(* C5: a failed TLS probe puts its hostname into ssl_failed exactly when   *)
(* its error text contains none of the expected-error substrings, letter   *)
(* case respected; when it contains one, the hostname gets neither a       *)
(* certificate entry nor a mention in an exception.                        *)
(***************************************************************************)
C5_SslFailureClassified ==
    \A hostname \in AggregatedSslHosts :
        ssl_tasks[hostname].kind = "Err" =>
            LET e == ssl_tasks[hostname].e
                expected == \E exp_err \in EXPECTED_ERRORS : contains(e, exp_err)
            IN  /\ (("- " \o hostname) \in ssl_failed) <=> ~expected
                /\ e = "connection refused" => ("- " \o hostname) \in ssl_failed
                /\ e = "Connection timed out" => ("- " \o hostname) \notin ssl_failed
                /\ expected =>
                      /\ \A serial \in DOMAIN expiring_ssl :
                            expiring_ssl[serial].hostname # hostname
                      /\ \A i \in DOMAIN calls :
                            /\ calls[i].method = "exception" => ~contains(calls[i].arg, hostname)
                            /\ calls[i].method = "ssl_expiration" =>
                                  calls[i].arg.hostname # hostname

C5_Witness ==
    /\ pc = "done"
    /\ hostnames # {}
    /\ ssl_tasks["test.example.com"] = Err("connection refused")
    /\ ssl_tasks["b.example.org"] =
           Err("failed to lookup address information: Name or service not known")
    /\ ssl_failed = {"- test.example.com"}
    /\ \E i \in DOMAIN calls :
          calls[i].method = "exception" /\ contains(calls[i].arg, "test.example.com")

(***************************************************************************)
(* C6: a root whose WHOIS probe succeeded has a domain entry, and the      *)
(* entry is sent to every notifier, exactly when days < alarm_days or      *)
(* days < 3, for every alarm_days.                                         *)
(***************************************************************************)
C6_DomainThreshold ==
    \A root \in AggregatedRoots :
        domain_tasks[root].kind = "Ok" =>
            LET days == DomainDays(root)
                flagged == days < alarm_days \/ days < 3
            IN  /\ (root \in DOMAIN expiring_domains) <=> flagged
                /\ root \in DOMAIN expiring_domains => expiring_domains[root].days = days
                /\ Reached("notify_ssl") =>
                      \A n \in DOMAIN notifiers :
                          flagged <=> \E i \in CallIdx(n, "expiration") :
                                          calls[i].arg.hostname = root

C6_Witness ==
    /\ pc = "done"
    /\ hostnames # {}
    /\ alarm_days = 0
    /\ domain_tasks["example.com"] = Ok(now + 2 * TicksPerDay)
    /\ domain_tasks["example.org"] = Ok(now + 5 * TicksPerDay)
    /\ \E i \in CallIdx(1, "expiration") :
          calls[i].arg.hostname = "example.com" /\ calls[i].arg.days = 2
    /\ \A i \in CallIdx(1, "expiration") : calls[i].arg.hostname # "example.org"

(***************************************************************************)
(* C7: a hostname whose TLS probe succeeded is counted into the entry of   *)
(* its certificate exactly when days <= ssl_alarm_days or days <= 1: the   *)
(* entry of a serial exists when some such hostname presented it, and its  *)
(* count is the number of them.                                            *)
(***************************************************************************)
C7_SslThreshold ==
    \A cert \in {CertA, CertB, CertC} :
        LET counted == {hostname \in AggregatedSslHosts :
                           /\ ssl_tasks[hostname].kind = "Ok"
                           /\ ssl_tasks[hostname].val.serial = cert.serial
                           /\ \/ SslDays(hostname) <= ssl_alarm_days
                              \/ SslDays(hostname) <= 1}
        IN  /\ (cert.serial \in DOMAIN expiring_ssl) <=> counted # {}
            /\ cert.serial \in DOMAIN expiring_ssl =>
                  expiring_ssl[cert.serial].more = Cardinality(counted)

C7_Witness ==
    /\ pc = "done"
    /\ hostnames # {}
    /\ ssl_alarm_days = 4
    /\ ssl_tasks["test.example.com"] = SslOk(now + 4 * TicksPerDay, CertA)
    /\ ssl_tasks["b.example.org"] = SslOk(now + 5 * TicksPerDay, CertA)
    /\ DOMAIN expiring_ssl = {CertA.serial}
    /\ expiring_ssl[CertA.serial].hostname = "test.example.com"
    /\ expiring_ssl[CertA.serial].more = 1

(***************************************************************************)
(* C8: when run returns, every notifier has received, for each serial that *)
(* k >= 1 flagged hostnames presented, exactly one certificate entry, with *)
(* more = k, and none for any other serial; and at most one domain entry   *)
(* per root.                                                               *)
(***************************************************************************)
C8_OneEntryPerKey ==
    (pc = "done" /\ hostnames # {}) =>
        \A n \in DOMAIN notifiers :
            /\ \A cert \in {CertA, CertB, CertC} :
                  LET k == Cardinality({hostname \in DOMAIN ssl_tasks :
                                  /\ ssl_tasks[hostname].kind = "Ok"
                                  /\ ssl_tasks[hostname].val.serial = cert.serial
                                  /\ \/ SslDays(hostname) <= ssl_alarm_days
                                     \/ SslDays(hostname) <= 1})
                      sent == {i \in CallIdx(n, "ssl_expiration") :
                                  calls[i].arg.info.serial = cert.serial}
                  IN  /\ Cardinality(sent) = (IF k >= 1 THEN 1 ELSE 0)
                      /\ \A i \in sent : calls[i].arg.more = k
            /\ \A i, j \in CallIdx(n, "expiration") :
                  calls[i].arg.hostname = calls[j].arg.hostname => i = j

C8_Witness ==
    /\ pc = "done"
    /\ Cardinality(DOMAIN ssl_tasks) = 3
    /\ Cardinality(CallIdx(1, "ssl_expiration")) = 2
    /\ \E i \in CallIdx(1, "ssl_expiration") : calls[i].arg.more = 2
    /\ \E i \in CallIdx(1, "ssl_expiration") : calls[i].arg.more = 1
    /\ Cardinality(CallIdx(1, "expiration")) = 3

(***************************************************************************)
(* C9: on every notifier the days of the expiration calls never decrease   *)
(* from one call to the next, nor do the days of the ssl_expiration calls. *)
(***************************************************************************)
C9_SortedByDays ==
    \A n \in DOMAIN notifiers :
        \A method \in {"expiration", "ssl_expiration"} :
            \A i, j \in CallIdx(n, method) : i < j => calls[i].arg.days <= calls[j].arg.days

C9_Witness ==
    /\ pc = "done"
    /\ hostnames # {}
    /\ domain_tasks["example.com"] = Ok(now + 2 * TicksPerDay)
    /\ domain_tasks["example.net"] = Ok(now + Expired)
    /\ domain_tasks["example.org"] = Ok(now + TicksPerDay)
    /\ \E i, j, k \in CallIdx(1, "expiration") :
          /\ i < j /\ j < k
          /\ calls[i].arg.days = -MaxDays /\ calls[j].arg.days = 1 /\ calls[k].arg.days = 2
    /\ \E i, j, k \in CallIdx(1, "ssl_expiration") :
          /\ i < j /\ j < k
          /\ calls[i].arg.days = -MaxDays /\ calls[j].arg.days = 0 /\ calls[k].arg.days = 1

(***************************************************************************)
(* C10: on every notifier the calls of a run come in this order: the       *)
(* exceptions of the source errors, the summary of the failed domains, the *)
(* summary of the failed certificates, the domain entries, the             *)
(* certificate entries.                                                    *)
(***************************************************************************)
CallRank(c) ==
    CASE c.method = "exception" ->
            (CASE IsSourceErrorText(c.arg) -> 1
               [] IsDomainSummaryText(c.arg) -> 2
               [] IsSslSummaryText(c.arg) -> 3
               [] OTHER -> 0)
      [] c.method = "expiration" -> 4
      [] c.method = "ssl_expiration" -> 5
      [] c.method = "commit" -> 6

C10_NotificationOrder ==
    \A n \in DOMAIN notifiers :
        LET received == SelectSeq(calls, LAMBDA c : c.notifier = n)
        IN  \A i \in DOMAIN received :
                /\ CallRank(received[i]) >= 1
                /\ i < Len(received) => CallRank(received[i]) <= CallRank(received[i + 1])

C10_Witness ==
    /\ pc = "done"
    /\ LET received == SelectSeq(calls, LAMBDA c : c.notifier = 2)
       IN  \A r \in 1..5 : \E i \in DOMAIN received : CallRank(received[i]) = r

(***************************************************************************)
(* C11: the record calls of a run come in rounds, one round per routed     *)
(* item: a round is one call on every notifier, in the order of            *)
(* registration, all with the item's method and argument, and it is over   *)
(* before the next item's round begins.  When the record calls are over    *)
(* there is one round per source error, one per non-empty failure set, one *)
(* per domain entry and one per certificate entry, and every entry has     *)
(* exactly one round.                                                      *)
(***************************************************************************)
RecordCalls == SelectSeq(calls, LAMBDA c : c.method \in RecordMethods)
\* the first call of the round that the i-th record call belongs to
RoundStart(i) == i - ((i - 1) % Len(notifiers))
RoutedItems ==
    Len(source_errors)
        + (IF domain_failed # {} THEN 1 ELSE 0)
        + (IF ssl_failed # {} THEN 1 ELSE 0)
        + Cardinality(DOMAIN expiring_domains)
        + Cardinality(DOMAIN expiring_ssl)

C11_EveryItemOnceToEveryNotifier ==
    LET rec == RecordCalls
        n   == Len(notifiers)
    IN  /\ Len(rec) % n = 0
        /\ \A i \in DOMAIN rec :
              /\ rec[i].notifier = ((i - 1) % n) + 1
              /\ rec[i].method = rec[RoundStart(i)].method
              /\ rec[i].arg = rec[RoundStart(i)].arg
        /\ Reached("commit") =>
              /\ Len(rec) = n * RoutedItems
              /\ \A root \in DOMAIN expiring_domains : \A k \in 1..n :
                    Cardinality({i \in CallIdx(k, "expiration") :
                                    calls[i].arg = expiring_domains[root]}) = 1
              /\ \A serial \in DOMAIN expiring_ssl : \A k \in 1..n :
                    Cardinality({i \in CallIdx(k, "ssl_expiration") :
                                    calls[i].arg = expiring_ssl[serial]}) = 1
              /\ \A msg \in Range(source_errors) : \A k \in 1..n :
                    \E i \in CallIdx(k, "exception") : calls[i].arg = msg

C11_Witness ==
    /\ pc = "done"
    /\ Len(notifiers) >= 2
    /\ Len(source_errors) >= 1
    /\ domain_failed # {}
    /\ Cardinality(DOMAIN expiring_domains) >= 1
    /\ Cardinality(DOMAIN expiring_ssl) >= 1
    /\ Len(RecordCalls) = Len(notifiers) * 4

(***************************************************************************)
(* C12: a probe task that panicked leaves no trace: its host has no entry, *)
(* is in no failure set and in no call on a notifier; every other task of  *)
(* the phase is aggregated by its own outcome alone (an entry when it      *)
(* succeeded within the threshold, counted among the hosts of its          *)
(* certificate, a failure when it failed); and run returns Ok.             *)
(***************************************************************************)
C12_PanickedTaskIsolated ==
    /\ \A root \in AggregatedRoots :
          LET r == domain_tasks[root]
          IN  /\ r.kind = "Panicked" =>
                    /\ root \notin DOMAIN expiring_domains
                    /\ ("- " \o root) \notin domain_failed
                    /\ \A i \in DOMAIN calls :
                          /\ calls[i].method = "expiration" => calls[i].arg.hostname # root
                          /\ (calls[i].method = "exception" /\ IsDomainSummaryText(calls[i].arg))
                                => ~contains(calls[i].arg, "- " \o root)
              /\ r.kind = "Ok" =>
                    ((root \in DOMAIN expiring_domains)
                        <=> (DomainDays(root) < alarm_days \/ DomainDays(root) < 3))
              /\ r.kind = "Err" => ("- " \o root) \in domain_failed
    /\ \A hostname \in AggregatedSslHosts :
          LET r == ssl_tasks[hostname]
              flagged(h) == /\ ssl_tasks[h].kind = "Ok"
                            /\ (SslDays(h) <= ssl_alarm_days \/ SslDays(h) <= 1)
          IN  /\ r.kind = "Panicked" =>
                    /\ \A serial \in DOMAIN expiring_ssl :
                          expiring_ssl[serial].hostname # hostname
                    /\ ("- " \o hostname) \notin ssl_failed
                    /\ \A i \in DOMAIN calls :
                          /\ calls[i].method = "ssl_expiration" =>
                                calls[i].arg.hostname # hostname
                          /\ (calls[i].method = "exception" /\ IsSslSummaryText(calls[i].arg))
                                => ~contains(calls[i].arg, "- " \o hostname)
              /\ flagged(hostname) =>
                    /\ r.val.serial \in DOMAIN expiring_ssl
                    /\ expiring_ssl[r.val.serial].more =
                          Cardinality({h \in AggregatedSslHosts :
                                          flagged(h) /\ ssl_tasks[h].val.serial = r.val.serial})
              /\ r.kind = "Err" =>
                    ((("- " \o hostname) \in ssl_failed) <=> ~IsExpectedError(r.e))
    /\ pc = "done" => run_result = "Ok"

C12_Witness ==
    /\ pc = "done"
    /\ run_result = "Ok"
    /\ DOMAIN domain_tasks = {"example.com", "example.org"}
    /\ domain_tasks["example.com"] = Panicked
    /\ domain_tasks["example.org"] = Err(ParseError)
    /\ domain_failed = {"- example.org"}
    /\ \E h1, h2, h3 \in DOMAIN ssl_tasks :
          /\ ssl_tasks[h1] = Panicked
          /\ ssl_tasks[h2].kind = "Ok"
          /\ ssl_tasks[h3].kind = "Err"
          /\ ssl_failed = {"- " \o h3}
          /\ \E i \in CallIdx(1, "ssl_expiration") :
                calls[i].arg.hostname = h2 /\ calls[i].arg.more = 1

(***************************************************************************)
(* C13: while a WHOIS task is running the run waits in the WHOIS phase and *)
(* while a TLS task is running it waits in the TLS phase: nothing of that  *)
(* phase has been aggregated, no summary, entry or commit has reached a    *)
(* notifier and run has not returned.  So a probe that never ends keeps    *)
(* the run from the notify and commit steps for ever.                      *)
(***************************************************************************)
OnlySourceErrorsRouted ==
    \A i \in DOMAIN calls :
        calls[i].method = "exception" /\ calls[i].arg \in Range(source_errors)

C13_BarrierBeforeAggregation ==
    /\ (\E root \in DOMAIN domain_tasks : domain_tasks[root] = Running) =>
          /\ pc = "probe_domains"
          /\ domain_results = {}
          /\ expiring_domains = EmptyMap /\ domain_failed = {}
          /\ OnlySourceErrorsRouted
          /\ run_result = "none"
    /\ (\E hostname \in DOMAIN ssl_tasks : ssl_tasks[hostname] = Running) =>
          /\ pc = "probe_ssl"
          /\ ssl_results = {}
          /\ expiring_ssl = EmptyMap /\ ssl_failed = {}
          /\ OnlySourceErrorsRouted
          /\ run_result = "none"
    /\ Reached("aggregate_domains") /\ hostnames # {} =>
          \A root \in DOMAIN domain_tasks : domain_tasks[root] # Running
    /\ Reached("aggregate_ssl") /\ hostnames # {} =>
          \A hostname \in DOMAIN ssl_tasks : ssl_tasks[hostname] # Running

C13_Witness ==
    /\ pc = "probe_ssl"
    /\ \E h1, h2 \in DOMAIN ssl_tasks :
          /\ ssl_tasks[h1] = Running
          /\ ssl_tasks[h2] = Err(NoCertError)
    /\ ssl_failed = {}
    /\ domain_failed # {}
    /\ DOMAIN expiring_domains # {}
    /\ calls = <<>>

(***************************************************************************)
(* C14 as stated: the TLS tasks are spawned together with the WHOIS tasks, *)
(* one per candidate of the hostname set, and no result of either kind is  *)
(* aggregated before the tasks of both kinds have ended.                   *)
(***************************************************************************)
C14_ProbesFormOnePhase ==
    (Reached("probe_domains") /\ hostnames # {}) =>
        /\ DOMAIN ssl_tasks =
              {CandidateTable[h].val : h \in {x \in hostnames : CandidateTable[x].some}}
        /\ (AggregatedRoots # {} \/ AggregatedSslHosts # {}) =>
              /\ \A root \in DOMAIN domain_tasks : domain_tasks[root] # Running
              /\ \A hostname \in DOMAIN ssl_tasks : ssl_tasks[hostname] # Running

(***************************************************************************)
(* C15: the WHOIS tasks of a run are one per distinct root of the hostname *)
(* set and the TLS tasks one per distinct candidate, spawned once: the     *)
(* key set of each kind never changes afterwards, and hostnames that       *)
(* differ only by letter case, surrounding whitespace, subdomain or        *)
(* wildcard prefix share one task.                                         *)
(***************************************************************************)
C15_OneTaskPerKey ==
    /\ (Reached("probe_domains") /\ hostnames # {}) =>
          /\ DOMAIN domain_tasks =
                {RootTable[h].val : h \in {x \in hostnames : RootTable[x].some}}
          /\ Cardinality(DOMAIN domain_tasks) <= Cardinality(hostnames)
          /\ Range(HostsB) \cup Range(HostsD) \subseteq hostnames =>
                DOMAIN domain_tasks = {"example.com", "example.org"}
    /\ (Reached("probe_ssl") /\ hostnames # {}) =>
          /\ DOMAIN ssl_tasks =
                {CandidateTable[h].val : h \in {x \in hostnames : CandidateTable[x].some}}
          /\ Cardinality(DOMAIN ssl_tasks) <= Cardinality(hostnames)
          /\ Range(HostsB) \cup Range(HostsD) \subseteq hostnames =>
                DOMAIN ssl_tasks = {"test.example.com", "b.example.org", "a.example.com"}
    /\ ~Reached("probe_domains") => DOMAIN domain_tasks = {}
    /\ ~Reached("probe_ssl") => DOMAIN ssl_tasks = {}

C15_Witness ==
    /\ pc = "done"
    /\ Cardinality(hostnames) = 5
    /\ Cardinality(DOMAIN domain_tasks) = 2
    /\ Cardinality(DOMAIN ssl_tasks) = 3
    /\ \A root \in DOMAIN domain_tasks : domain_tasks[root] # Running
    /\ \A hostname \in DOMAIN ssl_tasks : ssl_tasks[hostname] # Running

(***************************************************************************)
(* C16 as stated: when some source failed, every notifier receives exactly *)
(* one exception call for the source errors, however many sources failed.  *)
(***************************************************************************)
C16_OneSourceErrorException ==
    (Reached("loaded") /\ SomeSourceFailed) =>
        \A n \in DOMAIN notifiers :
            Cardinality({i \in CallIdx(n, "exception") : IsSourceErrorText(calls[i].arg)}) = 1

(***************************************************************************)
(* C17: every notifier receives no failure summary of a category whose     *)
(* failure set is empty and exactly one otherwise; the summary of one      *)
(* failure names that host, the summary of several states their number and *)
(* lists each of them on one line, once; the failure sets hold one member  *)
(* per failed host.                                                        *)
(***************************************************************************)
SummaryLists(msg, failed, singular, plural) ==
    IF Cardinality(failed) = 1
    THEN \E x \in failed : msg = singular \o "{\"" \o x \o "\"}"
    ELSE LET lines == split(msg, "\n")
         IN  /\ lines[1] = "Check error of " \o ToString(Cardinality(failed)) \o plural
             /\ Len(lines) = 1 + Cardinality(failed)
             /\ Range(Tail(lines)) = failed

C17_OneSummaryPerCategory ==
    /\ (Reached("aggregate_ssl") /\ hostnames # {}) =>
          domain_failed = {"- " \o root : root \in {r \in DOMAIN domain_tasks :
                                                      domain_tasks[r].kind = "Err"}}
    /\ (Reached("notify_domains") /\ hostnames # {}) =>
          ssl_failed = {"- " \o hostname : hostname \in
                            {h \in DOMAIN ssl_tasks : /\ ssl_tasks[h].kind = "Err"
                                                      /\ ~IsExpectedError(ssl_tasks[h].e)}}
    /\ \A n \in DOMAIN notifiers :
          LET dom == {i \in CallIdx(n, "exception") :
                         starts_with(calls[i].arg, "Domain check error: ")
                             \/ IsDomainSummaryText(calls[i].arg)}
              ssl == {i \in CallIdx(n, "exception") :
                         starts_with(calls[i].arg, "Certificate check error: ")
                             \/ IsSslSummaryText(calls[i].arg)}
          IN  IF Reached("notify_domains")
              THEN /\ Cardinality(dom) = (IF domain_failed = {} THEN 0 ELSE 1)
                   /\ Cardinality(ssl) = (IF ssl_failed = {} THEN 0 ELSE 1)
                   /\ \A i \in dom : SummaryLists(calls[i].arg, domain_failed,
                                                   "Domain check error: ", " domains")
                   /\ \A i \in ssl : SummaryLists(calls[i].arg, ssl_failed,
                                                   "Certificate check error: ",
                                                   " SSL certificates")
              ELSE dom = {} /\ ssl = {}

C17_Witness ==
    /\ pc = "done"
    /\ Cardinality(domain_failed) = 2
    /\ Cardinality(ssl_failed) = 1
    /\ Cardinality(DOMAIN ssl_tasks) = 3
    /\ \A n \in DOMAIN notifiers :
          /\ \E i \in CallIdx(n, "exception") :
                starts_with(calls[i].arg, "Check error of 2 domains\n")
          /\ \E i \in CallIdx(n, "exception") :
                starts_with(calls[i].arg, "Certificate check error: ")

(***************************************************************************)
(* C18: whatever the sources, the probes and the notifiers' commits        *)
(* answer, run returns Ok and never an error; and when every spawned probe *)
(* task terminates, run does return.                                       *)
(***************************************************************************)
C18_RunReturnsOk ==
    /\ [](pc = "done" => run_result = "Ok")
    /\ [](run_result # "Err")
    /\ <>(pc = "done")

C18_Witness ==
    /\ pc = "done"
    /\ run_result = "Ok"
    /\ SomeSourceFailed
    /\ \E root \in DOMAIN domain_tasks : domain_tasks[root].kind = "Err"
    /\ \E root \in DOMAIN domain_tasks : domain_tasks[root] = Panicked
    /\ \E hostname \in DOMAIN ssl_tasks : ssl_tasks[hostname] = Panicked
    /\ \E hostname \in DOMAIN ssl_tasks : ssl_tasks[hostname].kind = "Err"
    /\ \A n \in DOMAIN notifiers :
          \E i \in CallIdx(n, "commit") : calls[i].arg.kind = "Err"

(***************************************************************************)
(* C19: under every threshold, a root whose WHOIS probe answered an        *)
(* expiration in the past has a domain entry with its days, and a host     *)
(* whose TLS probe answered one is counted in the entry of its             *)
(* certificate; every notifier receives these entries.  This covers every  *)
(* result with negative days.                                              *)
(***************************************************************************)
C19_ExpiredAlwaysReported ==
    /\ \A root \in AggregatedRoots :
          (domain_tasks[root].kind = "Ok" /\ domain_tasks[root].val < now) =>
              /\ DomainDays(root) <= 0
              /\ root \in DOMAIN expiring_domains
              /\ expiring_domains[root].days = DomainDays(root)
              /\ Reached("notify_ssl") =>
                    \A n \in DOMAIN notifiers :
                        \E i \in CallIdx(n, "expiration") :
                            /\ calls[i].arg.hostname = root
                            /\ calls[i].arg.days = DomainDays(root)
    /\ \A hostname \in AggregatedSslHosts :
          (ssl_tasks[hostname].kind = "Ok" /\ ssl_tasks[hostname].val.expiry < now) =>
              LET serial == ssl_tasks[hostname].val.serial
              IN  /\ SslDays(hostname) <= 0
                  /\ serial \in DOMAIN expiring_ssl
                  /\ \/ expiring_ssl[serial].hostname = hostname
                     \/ expiring_ssl[serial].more >= 2
                  /\ Reached("commit") =>
                        \A n \in DOMAIN notifiers :
                            \E i \in CallIdx(n, "ssl_expiration") :
                                calls[i].arg = expiring_ssl[serial]

C19_Witness ==
    /\ pc = "done"
    /\ hostnames # {}
    /\ alarm_days = -(MaxDays + 1)
    /\ ssl_alarm_days = -(MaxDays + 1)
    /\ domain_tasks["example.com"] = Ok(now - TicksPerDay)
    /\ domain_tasks["example.org"] = Ok(now + MaxDays * TicksPerDay)
    /\ ssl_tasks["test.example.com"] = SslOk(now + Expired, CertA)
    /\ ssl_tasks["b.example.org"] = SslOk(now + MaxDays * TicksPerDay, CertB)
    /\ \A n \in DOMAIN notifiers :
          /\ \E i \in CallIdx(n, "expiration") :
                calls[i].arg.hostname = "example.com" /\ calls[i].arg.days = -1
          /\ \E i \in CallIdx(n, "ssl_expiration") :
                calls[i].arg.hostname = "test.example.com" /\ calls[i].arg.days = -MaxDays
          /\ Cardinality(CallIdx(n, "expiration")) = 1
          /\ Cardinality(CallIdx(n, "ssl_expiration")) = 1

(***************************************************************************)
(* C20 as stated: the days of an entry are the floor of the time left,     *)
(* counted in days, also for an expiration in the past: half a day ago     *)
(* gives -1.                                                               *)
(***************************************************************************)
C20_DaysIsFloor ==
    /\ \A root \in DOMAIN expiring_domains :
          expiring_domains[root].days = (domain_tasks[root].val - now) \div TicksPerDay
    /\ \A serial \in DOMAIN expiring_ssl :
          expiring_ssl[serial].days =
              (ssl_tasks[expiring_ssl[serial].hostname].val.expiry - now) \div TicksPerDay

(***************************************************************************)
(* C25: a hostname with fewer than two dot-separated labels (the empty     *)
(* string and a single label among them) has no root domain and is no      *)
(* candidate of the TLS probe: to_root_domain and filter_domain both       *)
(* return None.                                                            *)
(***************************************************************************)
C25_FewLabelsRejected ==
    Len(split(normalizer.domain, ".")) < 2 =>
        /\ normalizer.to_root_domain \in {Pending, None}
        /\ normalizer.filter_domain \in {Pending, None}

\* both functions have returned None on a single label in mixed case between whitespace
C25_Witness ==
    /\ normalizer.domain = " Example\n"
    /\ normalizer.to_root_domain = None
    /\ normalizer.filter_domain = None

(***************************************************************************)
(* C26: a hostname one of whose dot-separated labels, the hostname being   *)
(* trimmed and put to lower case, equals _dmarc, _domainkey,               *)
(* _acme-challenge or _spf, at any position and also behind a wildcard     *)
(* prefix, is no candidate of the TLS probe: filter_domain returns None.   *)
(* A label that only holds such a string inside does not reject the        *)
(* hostname: with two labels or more it is a candidate.                    *)
(***************************************************************************)
C26_TxtLabelRejected ==
    LET labels == split(to_lowercase(trim(normalizer.domain)), ".")
        reserved == \E i \in 1..Len(labels) : labels[i] \in TXT_PATTERNS
    IN  normalizer.filter_domain # Pending =>
            /\ reserved => normalizer.filter_domain = None
            /\ ~reserved /\ Len(labels) >= 2 => normalizer.filter_domain.some

\* a TXT-record label in mixed case behind a wildcard prefix has been rejected
C26_Witness ==
    /\ normalizer.domain = " *._Spf.com\n"
    /\ normalizer.filter_domain = None

(***************************************************************************)
(* C27: for every hostname h, to_root_domain("*." + h) equals              *)
(* to_root_domain(h), and a result that is present is made of the last two *)
(* labels of the parsed root.                                              *)
(***************************************************************************)
\* the parsed root of the hostname: trimmed, in lower case, one wildcard marker stripped
RootOfStripped(h) ==
    LET d0 == to_lowercase(trim(h))
    IN  ParsedRoot(IF starts_with(d0, "*.") THEN SubSeq(d0, 3, Len(d0)) ELSE d0)

LastTwoLabelsOfRoot(h, result) ==
    result.some =>
        LET root == split(RootOfStripped(h).val, ".")
            parts == split(result.val, ".")
        IN  /\ RootOfStripped(h).some
            /\ Len(parts) = 2
            /\ Len(root) >= 2
            /\ parts = SubSeq(root, Len(root) - 1, Len(root))

C27_WildcardSameRoot ==
    normalizer.to_root_domain # Pending =>
        /\ to_root_domain("*." \o normalizer.domain) = normalizer.to_root_domain
        /\ LastTwoLabelsOfRoot(normalizer.domain, normalizer.to_root_domain)

\* C27, amended: the same for every hostname h that begins neither with
\* whitespace nor with a wildcard marker of its own; the marker is stripped
\* once, after trimming, so "*. example.com" and "*.*.example.com" have no root
C27_WildcardSameRootOfBareHostname ==
    normalizer.to_root_domain # Pending =>
        /\ \/ Len(normalizer.domain) > 0 /\ IsWhitespace(CharAt(normalizer.domain, 1))
           \/ starts_with(normalizer.domain, "*.")
           \/ to_root_domain("*." \o normalizer.domain) = normalizer.to_root_domain
        /\ LastTwoLabelsOfRoot(normalizer.domain, normalizer.to_root_domain)

\* the root of a subdomain in mixed case has been computed, and the wildcard
\* over it has the same root
C27_Witness ==
    /\ normalizer.domain = "a.Example.com"
    /\ normalizer.to_root_domain = Some("example.com")
    /\ to_root_domain("*.a.Example.com") = Some("example.com")

(***************************************************************************)
(* C28: filter_domain rewrites a leading wildcard marker to a concrete     *)
(* host: the candidate of "*." + X is the candidate of "test." + X for     *)
(* every X, and no candidate begins with "*.".                             *)
(***************************************************************************)
C28_WildcardRewritten ==
    normalizer.filter_domain # Pending =>
        /\ filter_domain("*." \o normalizer.domain) = filter_domain("test." \o normalizer.domain)
        /\ starts_with(normalizer.domain, "*.") =>
              normalizer.filter_domain =
                  filter_domain("test." \o SubSeq(normalizer.domain, 3, Len(normalizer.domain)))
        /\ normalizer.filter_domain.some => ~starts_with(normalizer.filter_domain.val, "*.")

\* a wildcard hostname in mixed case has become a candidate under "test."
C28_Witness ==
    /\ normalizer.domain = "*.Example.com"
    /\ normalizer.filter_domain = Some("test.example.com")

(***************************************************************************)
(* C29: parse_whois_expiry returns the timestamp of the first line, in     *)
(* text order, that holds one of the expiry-field labels and whose text    *)
(* after the line's first colon parses under one of the accepted formats;  *)
(* it returns the "could not parse" error exactly when no line does both.  *)
(***************************************************************************)
HoldsExpiryLabel(line) ==
    \E k \in 1..Len(expiry_patterns) : contains(to_lowercase(line), expiry_patterns[k])

\* what the text after the first colon of the line parses to
DateAfterFirstColon(line) ==
    IF find(line, ":") = 0 THEN None
    ELSE ParseExpiryDate(trim(SubSeq(line, find(line, ":") + 1, Len(line))))

C29_FirstParsableExpiryLine ==
    LET ls == str_lines(whois.whois_text)
        good == {i \in DOMAIN ls : HoldsExpiryLabel(ls[i]) /\ DateAfterFirstColon(ls[i]).some}
    IN  whois.parse_whois_expiry # Pending =>
            IF good = {}
            THEN whois.parse_whois_expiry = CouldNotParse
            ELSE whois.parse_whois_expiry =
                     Ok(DateAfterFirstColon(ls[CHOOSE i \in good : \A j \in good : i <= j]).val)

\* the first line holds a label and no date, the second one a label and a date
\* with a time: the call has returned the second line's timestamp
C29_Witness ==
    /\ whois.whois_text = "expires: never\nExpiration Time: 2026-01-31 10:20:30"
    /\ whois.parse_whois_expiry = Ok([day |-> 20484, second |-> 37230])

(***************************************************************************)
(* C30: the result of parse_whois_expiry does not depend on the letter     *)
(* case of the field label: two WHOIS texts that differ only in the case   *)
(* of the labels parse to the same timestamp.                              *)
(***************************************************************************)
UpperChar(c) ==
    IF InChars(c, LowerChars)
    THEN CharAt(UpperChars, CHOOSE j \in 1..Len(LowerChars) : CharAt(LowerChars, j) = c)
    ELSE c

to_uppercase(s) ==
    LET upper[i \in 0..Len(s)] == IF i = 0 THEN "" ELSE upper[i - 1] \o UpperChar(CharAt(s, i))
    IN  upper[Len(s)]

\* the text with the part of every line before its first colon put to lower
\* case (lower = TRUE) or to upper case
WithLabelCase(text, lower) ==
    LET pieces == split(text, "\n")
        recased == [i \in DOMAIN pieces |->
            LET c == find(pieces[i], ":")
                label == SubSeq(pieces[i], 1, c)
            IN  (IF lower THEN to_lowercase(label) ELSE to_uppercase(label))
                    \o SubSeq(pieces[i], c + 1, Len(pieces[i]))]
    IN  join(recased, "\n")

C30_LabelCaseIgnored ==
    whois.parse_whois_expiry # Pending =>
        /\ parse_whois_expiry(WithLabelCase(whois.whois_text, TRUE)) = whois.parse_whois_expiry
        /\ parse_whois_expiry(WithLabelCase(whois.whois_text, FALSE)) = whois.parse_whois_expiry

\* "Expiry Date: 2025-01-01" has been parsed, and "expiry date: 2025-01-01"
\* parses to the same end of that day
C30_Witness ==
    /\ whois.whois_text = "Expiry Date: 2025-01-01"
    /\ whois.parse_whois_expiry = Ok([day |-> 20089, second |-> 86399])
    /\ parse_whois_expiry("expiry date: 2025-01-01") = whois.parse_whois_expiry

(***************************************************************************)
(* C21: a record call (ssl_expiration, exception, expiration) appends its  *)
(* argument to the matching buffer, behind what the buffer holds, leaves   *)
(* the two other buffers as they are and sends nothing; the buffers change *)
(* in no other step, and a post is made only while commit is running.      *)
(***************************************************************************)
IsRecordStep ==
    /\ Len(calls') = Len(calls) + 1
    /\ calls'[Len(calls')].method \in RecordMethods

BufferAfter(buffer, method, call) ==
    IF call.method = method THEN Append(buffer, call.arg) ELSE buffer

C21_RecordCallsOnlyBuffer ==
    [][/\ IsRecordStep =>
             /\ notifiers'[1].ssl_entries =
                    BufferAfter(notifiers[1].ssl_entries, "ssl_expiration", calls'[Len(calls')])
             /\ notifiers'[1].errors =
                    BufferAfter(notifiers[1].errors, "exception", calls'[Len(calls')])
             /\ notifiers'[1].domain_entries =
                    BufferAfter(notifiers[1].domain_entries, "expiration", calls'[Len(calls')])
             /\ telegram' = telegram
       /\ notifiers' # notifiers => IsRecordStep
       /\ telegram'.posted # telegram.posted \/ telegram'.events # telegram.events
             => telegram.pc # "idle"]_vars

\* two exceptions are buffered in the order of the calls, the second one
\* recorded after commit had sent the first: nothing more has been posted
C21_Witness ==
    /\ Len(calls) = 3
    /\ calls[1].method = "exception" /\ calls[2].method = "commit"
    /\ calls[3].method = "exception"
    /\ notifiers[1].errors = <<calls[1].arg, calls[3].arg>>
    /\ calls[1].arg # calls[3].arg
    /\ Len(telegram.posted) = 1

(***************************************************************************)
(* C22: send_message with retry count r makes r + 1 posts at most, stops   *)
(* at the first post answered with a success status, sleeps the fixed      *)
(* retry interval between two consecutive posts and not after the last,    *)
(* returns, and returns an error exactly when all r + 1 posts failed (a    *)
(* transport error or another status).                                     *)
(***************************************************************************)
PostsOf(events) == SelectSeq(events, LAMBDA e : e.kind = "post")

SendMessageAttempts ==
    LET ev == telegram.events
        posts == PostsOf(ev)
    IN  /\ Len(posts) <= telegram.retries + 1
        /\ \A i \in 1..Len(ev) : ev[i].kind = (IF i % 2 = 1 THEN "post" ELSE "sleep")
        /\ \A i \in 1..Len(ev) : ev[i].kind = "sleep" => ev[i].secs = DefaultRetryIntervalSecs
        /\ \A i \in 1..Len(posts) : posts[i].attempt = i - 1 /\ posts[i].text = posts[1].text
        /\ \A i \in 1..(Len(posts) - 1) : posts[i].answer # "success"
        /\ telegram.returned # "none" => Len(ev) > 0 /\ ev[Len(ev)].kind = "post"
        /\ telegram.returned = "Ok" => posts[Len(posts)].answer = "success"
        /\ telegram.returned = "Err" <=>
               /\ Len(posts) = telegram.retries + 1
               /\ \A i \in 1..Len(posts) : posts[i].answer # "success"

C22_SendMessageRetries ==
    /\ []SendMessageAttempts
    /\ (telegram.pc = "post") ~> (telegram.returned # "none")

\* with one retry, a post answered with an error status, the sleep, and a
\* post that got no answer: send_message has returned the error
C22_Witness ==
    /\ telegram.retries = 1
    /\ telegram.returned = "Err"
    /\ Len(telegram.events) = 3
    /\ telegram.events[1].answer = "status"
    /\ telegram.events[2].kind = "sleep"
    /\ telegram.events[3].answer = "transport"

(***************************************************************************)
(* C24: in single-shot mode exactly one run executes and the process then  *)
(* terminates; in periodic mode one run is started per tick of the timer,  *)
(* a run that returns an error does not stop the loop (the next tick still *)
(* starts a run), and two runs never overlap in time.                      *)
(***************************************************************************)
OneRunAtATime ==
    /\ main_loop.running <= 1
    /\ main_loop.mode = "single_shot" =>
           /\ main_loop.runs <= 1
           /\ main_loop.pc = "exited" => main_loop.runs = 1 /\ main_loop.running = 0
    /\ main_loop.mode = "periodic" =>
           /\ main_loop.runs = main_loop.elapsed - main_loop.due
           /\ main_loop.pc # "exited"

C24_OneRunPerTrigger ==
    /\ []OneRunAtATime
    /\ (main_loop.mode = "single_shot") ~> (main_loop.pc = "exited")
    /\ \A n \in 1..(MaxTicks + 1) :
           (main_loop.mode = "periodic" /\ main_loop.elapsed >= n) ~> (main_loop.runs >= n)

\* the first run of the loop has returned an error and the second one, started
\* by the next tick, has returned
C24_Witness ==
    /\ main_loop.mode = "periodic"
    /\ Len(main_loop.results) = 2
    /\ main_loop.results[1].result = "Err"
    /\ main_loop.runs = 2
    /\ main_loop.pc = "tick"

(***************************************************************************)
(* C23: every run starts with the buffers of every notifier empty: the     *)
(* service and its notifiers are built anew for each run, so that the      *)
(* buffers hold, at any time, what this run has recorded and nothing that  *)
(* an earlier run of the loop recorded.                                    *)
(***************************************************************************)
\* the arguments of the calls of `method` made on notifier n since the service was built
RecordedBy(n, method) ==
    LET mine == SelectSeq(calls, LAMBDA c : c.notifier = n /\ c.method = method)
    IN  [i \in DOMAIN mine |-> mine[i].arg]

BuffersHoldThisRun ==
    \A n \in DOMAIN notifiers :
        /\ notifiers[n].errors = RecordedBy(n, "exception")
        /\ notifiers[n].domain_entries = RecordedBy(n, "expiration")
        /\ notifiers[n].ssl_entries = RecordedBy(n, "ssl_expiration")

C23_FreshNotifiersEachRun ==
    /\ []BuffersHoldThisRun
    /\ [][main_loop'.runs # main_loop.runs =>
              /\ calls' = <<>>
              /\ Len(notifiers') = 2
              /\ \A n \in DOMAIN notifiers' : notifiers'[n] = NewNotifier]_vars

\* the first run recorded on the notifiers; the second run is at its commit
\* with one exception of its own in the buffer of every notifier
C23_Witness ==
    /\ main_loop.runs = 2
    /\ main_loop.results[1].calls > 0
    /\ pc = "commit"
    /\ \A n \in DOMAIN notifiers :
           Len(notifiers[n].errors) = 1 /\ notifiers[n].domain_entries = <<>>

(***************************************************************************)
(* C31: for every day count n, format_days returns the "many" form when    *)
(* |n| mod 100 is in 11..14, otherwise the singular form when |n| mod 10   *)
(* is 1, the "few" form when |n| mod 10 is in 2..4 and the plural form in  *)
(* all other cases; the result depends on |n| alone.                       *)
(***************************************************************************)
\* |n| mod k, computed without negating n
AbsMod(n, k) == IF n >= 0 THEN n % k ELSE (k - (n % k)) % k

PluralOf(n) ==
    IF AbsMod(n, 100) \in 11..14 THEN "dney"
    ELSE IF AbsMod(n, 10) = 1 THEN "den"
    ELSE IF AbsMod(n, 10) \in 2..4 THEN "dnya"
    ELSE "dney"

C31_FormatDaysPluralAboveMin ==
    formatter.format_days # Pending /\ formatter.n # I32_MIN
        => formatter.format_days = Ok(PluralOf(formatter.n))

(***************************************************************************)
(* C32: within a run, every exception, expiration or ssl_expiration call   *)
(* on a notifier is followed, before the run returns, by a commit call on  *)
(* that notifier; this includes the run in which source errors were        *)
(* recorded and the merged hostname set is empty.                          *)
(***************************************************************************)
C32_EveryRecordCommitted ==
    pc = "done" =>
        \A i \in DOMAIN calls :
            calls[i].method # "commit" =>
                \E j \in DOMAIN calls :
                    /\ j > i
                    /\ calls[j].method = "commit"
                    /\ calls[j].notifier = calls[i].notifier

\* the same for the runs whose merged hostname set is not empty
C32_EveryRecordCommittedWithHostnames ==
    hostnames # {} => C32_EveryRecordCommitted

(***************************************************************************)
(* C33: for fixed probe outcomes, the entries routed to the notifiers,     *)
(* their duplicate counts and the contents of the failure sets do not      *)
(* depend on the order in which the concurrent probe tasks complete: they  *)
(* are what the outcomes of all the spawned tasks, slot by slot, give.     *)
(***************************************************************************)
FlaggedRoots ==
    {root \in DOMAIN domain_tasks :
        /\ domain_tasks[root].kind = "Ok"
        /\ DomainFlagged(num_days(domain_tasks[root].val - now), alarm_days)}

FlaggedCandidates ==
    {hostname \in DOMAIN ssl_tasks :
        /\ ssl_tasks[hostname].kind = "Ok"
        /\ SslFlagged(num_days(ssl_tasks[hostname].val.expiry - now), ssl_alarm_days)}

\* the flagged candidates whose certificate has this serial
Sharing(serial) == {hostname \in FlaggedCandidates : ssl_tasks[hostname].val.serial = serial}

DomainsAggregated ==
    \/ pc = "aggregate_domains" /\ domain_results = {}
    \/ pc \in {"probe_ssl", "aggregate_ssl", "notify_domains", "notify_ssl", "commit"}

SslAggregated ==
    \/ pc = "aggregate_ssl" /\ ssl_results = {}
    \/ pc \in {"notify_domains", "notify_ssl", "commit"}

DomainsFromOutcomes ==
    /\ \A root \in DOMAIN domain_tasks : domain_tasks[root] # Running
    /\ DOMAIN expiring_domains = FlaggedRoots
    /\ \A root \in FlaggedRoots :
           expiring_domains[root] =
               DomainEntry(root, domain_tasks[root].val, num_days(domain_tasks[root].val - now))
    /\ domain_failed =
           {"- " \o root : root \in {r \in DOMAIN domain_tasks : domain_tasks[r].kind = "Err"}}

SslFromOutcomes ==
    /\ \A hostname \in DOMAIN ssl_tasks : ssl_tasks[hostname] # Running
    /\ DOMAIN expiring_ssl = {ssl_tasks[hostname].val.serial : hostname \in FlaggedCandidates}
    /\ \A serial \in DOMAIN expiring_ssl :
           /\ expiring_ssl[serial].more = Cardinality(Sharing(serial))
           /\ \E hostname \in Sharing(serial) :
                  expiring_ssl[serial] =
                      SslEntry(hostname, ssl_tasks[hostname].val.expiry, serial,
                               ssl_tasks[hostname].val.issuer,
                               num_days(ssl_tasks[hostname].val.expiry - now),
                               Cardinality(Sharing(serial)))
    /\ ssl_failed =
           {"- " \o hostname : hostname \in
               {h \in DOMAIN ssl_tasks :
                   ssl_tasks[h].kind = "Err" /\ ~IsExpectedError(ssl_tasks[h].e)}}

\* every notifier has been handed each aggregated entry once and nothing else
EntriesRouted ==
    \A n \in DOMAIN notifiers :
        /\ Range(RecordedBy(n, "expiration")) = Range(expiring_domains)
        /\ Len(RecordedBy(n, "expiration")) = Cardinality(DOMAIN expiring_domains)
        /\ Range(RecordedBy(n, "ssl_expiration")) = Range(expiring_ssl)
        /\ Len(RecordedBy(n, "ssl_expiration")) = Cardinality(DOMAIN expiring_ssl)

C33_CompletionOrderIrrelevant ==
    /\ DomainsAggregated => DomainsFromOutcomes
    /\ SslAggregated => SslFromOutcomes
    /\ pc = "commit" => EntriesRouted

\* three TLS tasks have ended, two with the same flagged certificate and one
\* with an error, next to a failed and a flagged domain; all is routed
C33_Witness ==
    /\ pc = "commit"
    /\ Cardinality(DOMAIN ssl_tasks) = 3
    /\ \E serial \in DOMAIN expiring_ssl : expiring_ssl[serial].more = 2
    /\ ssl_failed # {}
    /\ domain_failed # {}
    /\ DOMAIN expiring_domains # {}

(***************************************************************************)
(* C34: TelegramNotifierService::commit sends the non-empty categories in  *)
(* the order certificate entries, domain entries, errors; when sending a   *)
(* chunk fails after all retries, commit returns that error at once and no *)
(* later chunk or category is sent; chunks already sent are not sent       *)
(* again.                                                                  *)
(***************************************************************************)
\* the number a chunk's prefix "[i/n] " gives it, 1 without a prefix
ChunkOf(text) ==
    IF Len(text) > 2 /\ CharAt(text, 1) = "[" /\ InChars(CharAt(text, 2), DigitChars)
    THEN ToNat(SubSeq(text, 2, find(text, "/") - 1))
    ELSE 1

\* a text without its chunk prefix
Unprefixed(text) ==
    IF Len(text) > 2 /\ CharAt(text, 1) = "[" /\ InChars(CharAt(text, 2), DigitChars)
    THEN SubSeq(text, find(text, " ") + 1, Len(text))
    ELSE text

\* the category a text belongs to, told by its header
CategoryOf(text) ==
    IF starts_with(Unprefixed(text), SslHeader) THEN 1
    ELSE IF starts_with(Unprefixed(text), DomainHeader) THEN 2
    ELSE 3

InCommit == telegram.pc \in {"send_messages", "post", "sleep"}

\* the texts of commit, sent and to send, come by category and by chunk, and
\* none comes twice
SentInOrder ==
    LET texts == telegram.posted \o telegram.queue
    IN  \A i, j \in DOMAIN texts :
            i < j =>
                \/ CategoryOf(texts[i]) < CategoryOf(texts[j])
                \/ /\ CategoryOf(texts[i]) = CategoryOf(texts[j])
                   /\ ChunkOf(texts[i]) < ChunkOf(texts[j])

\* commit has returned the error of a send: the text that failed, at the
\* last attempt, is the one after the texts sent, and it has not been sent
FailedAtOnce ==
    telegram.committed = "Err" =>
        /\ telegram.pc = "idle"
        /\ telegram.queue # <<>>
        /\ LET last == telegram.events[Len(telegram.events)]
           IN  /\ last.kind = "post"
               /\ last.answer # "success"
               /\ last.attempt = telegram.retries
               /\ last.text = Head(telegram.queue)

\* the categories of the texts sent
SentCategories == {CategoryOf(telegram.posted[i]) : i \in DOMAIN telegram.posted}

\* the categories whose buffer holds something
BufferedCategories ==
    (IF notifiers[1].ssl_entries # <<>> THEN {1} ELSE {})
        \cup (IF notifiers[1].domain_entries # <<>> THEN {2} ELSE {})
        \cup (IF notifiers[1].errors # <<>> THEN {3} ELSE {})

C34_SendOrderAndFirstFailureStops ==
    /\ [](SentInOrder /\ FailedAtOnce)
    \* commit hands the non-empty categories to send_messages, and no other
    /\ [][telegram.pc = "idle" /\ telegram'.pc # "idle" =>
              {CategoryOf(telegram'.queue[i]) : i \in DOMAIN telegram'.queue}
                  = BufferedCategories]_vars
    \* a text leaves the queue when it is sent, and only then
    /\ [][InCommit => telegram'.posted \o telegram'.queue
                          = telegram.posted \o telegram.queue]_vars
    \* commit returns Ok(()) when every text has been sent
    /\ [](telegram.committed = "Ok" => telegram.queue = <<>>)
    \* once commit has returned nothing more is posted
    /\ [][telegram.committed # "none" =>
              telegram'.posted = telegram.posted /\ telegram'.events = telegram.events]_vars

\* the certificate message could not be sent: commit has returned the error
\* and the error list, buffered too, has not been sent
C34_Witness ==
    /\ telegram.committed = "Err"
    /\ telegram.posted = <<>>
    /\ Len(telegram.queue) = 2
    /\ CategoryOf(telegram.queue[1]) = 1
    /\ CategoryOf(telegram.queue[2]) = 3

\* the first chunk of the errors has been sent and the second has failed
C34_WitnessChunks ==
    /\ telegram.committed = "Err"
    /\ Len(telegram.posted) = 1
    /\ starts_with(telegram.posted[1], "[1/2] ")

(***************************************************************************)
(* C35: every text that send_messages passes to send_message (the chunk    *)
(* prefix "[i/n] ", the header, the separators and the joined messages)    *)
(* has length at most MAX_MESSAGE_LENGTH, provided the header together     *)
(* with any single message fits within the limit.                          *)
(***************************************************************************)
\* the header and any single message, with the separators chunk_messages
\* counts after each, fit within the limit
EveryMessageFits ==
    \A i \in DOMAIN formatter.messages :
        Len(formatter.header) + 2 + Len(formatter.messages[i]) + 2 <= MAX_MESSAGE_LENGTH

C35_TextsWithinLimit ==
    formatter.send_messages # Pending /\ EveryMessageFits =>
        \A i \in DOMAIN formatter.send_messages.val :
            Len(formatter.send_messages.val[i]) <= MAX_MESSAGE_LENGTH

\* the length of the prefix of chunk i of n
PrefixLen(i, n) == IF n > 1 THEN Len("[" \o ToString(i) \o "/" \o ToString(n) \o "] ") ELSE 0

\* the same with the prefix, which chunk_messages does not count, set apart
C35_TextsWithinLimitButForPrefix ==
    formatter.send_messages # Pending /\ EveryMessageFits =>
        \A i \in DOMAIN formatter.send_messages.val :
            Len(formatter.send_messages.val[i])
                <= MAX_MESSAGE_LENGTH - 2 + PrefixLen(i, Len(formatter.send_messages.val))

(***************************************************************************)
(* C36: chunk_messages loses, duplicates and reorders nothing: the chunks  *)
(* it returns, put one after the other, are the messages it was given; no  *)
(* chunk is empty, and no message gives no chunk.                          *)
(***************************************************************************)
RECURSIVE Flatten(_)
Flatten(chunks) == IF chunks = <<>> THEN <<>> ELSE Head(chunks) \o Flatten(Tail(chunks))

C36_ChunksKeepMessages ==
    formatter.chunk_messages # Pending =>
        /\ Flatten(formatter.chunk_messages.val) = formatter.messages
        /\ \A i \in DOMAIN formatter.chunk_messages.val : formatter.chunk_messages.val[i] # <<>>
        /\ formatter.messages = <<>> => formatter.chunk_messages.val = <<>>

\* three messages have been cut into two chunks; the first message passes
\* the limit alone, so that the chunk before it would have been empty
C36_Witness ==
    /\ formatter.chunk_messages # Pending
    /\ Len(formatter.messages) = 3
    /\ Len(formatter.chunk_messages.val) = 2
    /\ Len(formatter.messages[1]) > Room(formatter.header)

(***************************************************************************)
(* C37: for a certificate entry as the aggregator makes it (its "more"     *)
(* holding the duplicate count), the message either notifier formats       *)
(* carries the duplicate suffix " (+N)" with N that count.                 *)
(***************************************************************************)
DuplicateSuffix(entry) == " (+" \o ToString(entry.more) \o ")"

C37_DuplicateSuffixShown ==
    formatter.kind = "ssl" =>
        /\ formatter.telegram # Pending =>
               contains(formatter.telegram.val, DuplicateSuffix(formatter.entry))
        /\ formatter.console # Pending =>
               contains(formatter.console.val, DuplicateSuffix(formatter.entry))

(***************************************************************************)
(* C38: for every buffered domain entry with a hostname and a days field,  *)
(* the message either notifier formats contains the hostname of the entry, *)
(* when days >= 0 and when days < 0 (already expired) alike.               *)
(***************************************************************************)
C38_DomainMessageNamesHost ==
    formatter.kind = "domain" =>
        /\ formatter.telegram # Pending =>
               contains(formatter.telegram.val, formatter.entry.hostname)
        /\ formatter.console # Pending =>
               contains(formatter.console.val, formatter.entry.hostname)

\* the same for the Telegram notifier, and for the console notifier where
\* the domain has not expired
C38_DomainMessageNamesHostUnlessExpiredOnConsole ==
    formatter.kind = "domain" =>
        /\ formatter.telegram # Pending =>
               contains(formatter.telegram.val, formatter.entry.hostname)
        /\ formatter.console # Pending /\ formatter.entry.days >= 0 =>
               contains(formatter.console.val, formatter.entry.hostname)
====
